---- MODULE Spec2Model ----
(***************************************************************************)
(* Warehouse server (server.py): the SQLite tables of one database file,   *)
(* the session / role gate and the request handlers of AppHandler.         *)
(*                                                                         *)
(* A table is a set of rows (records); org_shipment_items, whose rows are  *)
(* read back in AUTOINCREMENT order, is a sequence in insertion order.     *)
(* A handler is an operator from the database (a record of the tables)     *)
(* and a request to the new database and the response.                     *)
(***************************************************************************)
EXTENDS Integers, Sequences, FiniteSets, TLC

\* ------------------------------------------------------------- bounds
MaxProducts == 3        \* product ids make_id("p") ever hands out
MaxReceipts == 3        \* receipt ids make_id("r") ever hands out
MaxShipments == 2       \* shipment ids make_id("s") ever hands out
MaxTokens == 4          \* session tokens ever handed out
MaxLines == 2           \* lines of one shipment request
MaxQty == 2             \* largest quantity a request names
MaxTime == 21           \* last instant of the clock, in days

SESSION_TTL_DAYS == 14

\* ------------------------------------------------------------- domains
Orgs == {"o1", "o2"}
Users == {"u1", "u2", "u3"}
RoleNames == {"owner", "manager", "viewer"}
Names == {"A", "B"}

ProductIds == 1..MaxProducts
ReceiptIds == 1..MaxReceipts
ShipmentIds == 1..MaxShipments
Tokens == 1..MaxTokens
Blank == 0              \* an id or a cookie that is the empty string

VARIABLES
    products,       \* org_products rows
    receipts,       \* org_receipts rows
    shipments,      \* org_shipments rows
    items,          \* org_shipment_items rows, in id order
    memberships,    \* memberships rows
    sessions,       \* sessions rows
    issued,         \* how many ids of each prefix make_id / token_urlsafe gave out
    now,            \* now_utc()
    conn,           \* the requests in flight, one connection each
    lock            \* the connection holding the database write lock, or 0

dbvars == <<products, receipts, shipments, items, memberships, sessions, issued>>
vars == <<products, receipts, shipments, items, memberships, sessions, issued,
          now, conn, lock>>

DB == [products |-> products, receipts |-> receipts, shipments |-> shipments,
       items |-> items, memberships |-> memberships, sessions |-> sessions,
       issued |-> issued]

\* ------------------------------------------------------------- helpers
Max0(x) == IF x < 0 THEN 0 ELSE x

make_id(d, prefix) == d.issued[prefix] + 1

Issue(d, prefix) == [d EXCEPT !.issued[prefix] = @ + 1]

\* ON DELETE CASCADE of org_receipts.product_id and org_shipment_items.product_id
CascadeProduct(d, pid) ==
    [d EXCEPT !.receipts = {r \in @ : r.product_id # pid},
              !.items = SelectSeq(@, LAMBDA i : i.product_id # pid)]

\* A schema whose shipment items outlive their shipment.
CascadeNothing(d, sid) == d

\* ON DELETE CASCADE of org_shipment_items.shipment_id
CascadeShipment(d, sid) ==
    [d EXCEPT !.items = SelectSeq(@, LAMBDA i : i.shipment_id # sid)]

ItemsOf(d, sid) == SelectSeq(d.items, LAMBDA i : i.shipment_id = sid)

\* ------------------------------------------------------------- responses
NoBody == [products |-> {}, receipts |-> {}, shipments |-> {}]

Reply(d, status, kind) ==
    [db |-> d, resp |-> [status |-> status, kind |-> kind, hasBody |-> FALSE, body |-> NoBody]]

ReplyBody(d, status, kind, body) ==
    [db |-> d, resp |-> [status |-> status, kind |-> kind, hasBody |-> TRUE, body |-> body]]

row_to_product(r) ==
    [id |-> r.id, name |-> r.name, price |-> r.price, stock |-> r.stock,
     purchasePrice |-> r.purchase_price]

fetch_state(d, org_id) ==
    [products |-> {row_to_product(p) : p \in {q \in d.products : q.org_id = org_id}},
     receipts |-> {[id |-> r.id, productId |-> r.product_id, quantity |-> r.quantity,
                    cost |-> r.cost, createdAt |-> r.created_at]
                   : r \in {q \in d.receipts : q.org_id = org_id}},
     shipments |-> {[id |-> sh.id, createdAt |-> sh.created_at,
                     items |-> [k \in DOMAIN ItemsOf(d, sh.id) |->
                                  [productId |-> ItemsOf(d, sh.id)[k].product_id,
                                   quantity |-> ItemsOf(d, sh.id)[k].quantity,
                                   price |-> ItemsOf(d, sh.id)[k].price,
                                   amount |-> ItemsOf(d, sh.id)[k].amount]]]
                    : sh \in {q \in d.shipments : q.org_id = org_id}}]

\* The order of the lists of fetch_state.  created_at is now_iso(), a reading
\* of the clock finer than a second; SQLite's datetime() keeps the whole
\* seconds of it.  Second is the number of clock readings to the second where
\* the clock is read that finely (SpecOrder).
Second == 2

datetime(created_at) == created_at \div Second

\* ORDER BY datetime(created_at) DESC: every arrangement of the rows in which
\* the key never rises; SQL leaves the order of rows of equal key open.
OrderByDatetimeDesc(rows) ==
    {ls \in [1..Cardinality(rows) -> rows] :
        /\ \A i, j \in DOMAIN ls : i # j => ls[i] # ls[j]
        /\ \A i, j \in DOMAIN ls :
              i < j => datetime(ls[i].created_at) >= datetime(ls[j].created_at)}

\* The lists fetch_state may return for the rows of one table.
fetch_order(d, org_id) ==
    [products : OrderByDatetimeDesc({q \in d.products : q.org_id = org_id}),
     receipts : OrderByDatetimeDesc({q \in d.receipts : q.org_id = org_id}),
     shipments : OrderByDatetimeDesc({q \in d.shipments : q.org_id = org_id})]

\* ------------------------------------------------------------- requests
\* A request: the route (op), the session cookie, the id of the path, and the
\* fields of the JSON payload.  payload = "garbled" is a body json.loads or
\* float() refuses (ValueError).  The numbers of a payload are whole numbers,
\* which int(float(x)) and float(x) give back as they are.
NoReq ==
    [op |-> "none", token |-> Blank, id |-> Blank, payload |-> "json",
     name |-> "", price |-> 0, stock |-> 0, purchasePrice |-> 0,
     quantity |-> 0, cost |-> 0, lines |-> <<>>,
     email |-> "", role |-> "", username |-> "", password |-> ""]

NoResp == [status |-> 0, kind |-> "none", hasBody |-> FALSE, body |-> NoBody]

\* ------------------------------------------------------------- session gate
NoAuth == [ok |-> FALSE]

\* The row of the four-table join for a token: users and organizations rows
\* always exist (nothing deletes them), so the join is sessions x memberships.
AuthRows(d, token) ==
    UNION {{[token |-> s.token, user_id |-> s.user_id, org_id |-> s.org_id,
             expires_at |-> s.expires_at, role |-> m.role]
            : m \in {x \in d.memberships : x.user_id = s.user_id /\ x.org_id = s.org_id}}
           : s \in {x \in d.sessions : x.token = token}}

\* An expiry test that lets the last instant through.
ExpiredLate(expires_at, t) == expires_at < t

Expired(expires_at, t) == expires_at <= t

\* A gate that, finding the presented session expired, deletes every session
\* that has expired.
get_current_auth_sweeping(d, t, token) ==
    LET rows == AuthRows(d, token)
        row == CHOOSE r \in rows : TRUE
    IN IF token = Blank THEN [auth |-> NoAuth, db |-> d]
       ELSE IF rows = {} THEN [auth |-> NoAuth, db |-> d]
       ELSE IF Expired(row.expires_at, t)
            THEN [auth |-> NoAuth,
                  db |-> [d EXCEPT !.sessions = {s \in @ : ~Expired(s.expires_at, t)}]]
       ELSE [auth |-> [ok |-> TRUE, token |-> row.token, userId |-> row.user_id,
                       orgId |-> row.org_id, role |-> row.role],
             db |-> d]

\* _get_current_auth: [auth, db]; an expired session is deleted on the way.
get_current_auth(d, t, token) ==
    LET rows == AuthRows(d, token)
        row == CHOOSE r \in rows : TRUE
    IN IF token = Blank THEN [auth |-> NoAuth, db |-> d]
       ELSE IF rows = {} THEN [auth |-> NoAuth, db |-> d]
       ELSE IF Expired(row.expires_at, t)
            THEN [auth |-> NoAuth,
                  db |-> [d EXCEPT !.sessions = {s \in @ : s.token # token}]]
       ELSE [auth |-> [ok |-> TRUE, token |-> row.token, userId |-> row.user_id,
                       orgId |-> row.org_id, role |-> row.role],
             db |-> d]

\* A gate that lets every member through.
require_role_any(auth, allowed) == auth.role \in RoleNames

require_role(auth, allowed) == auth.role \in allowed

Writers == {"owner", "manager"}

\* _create_session
create_session(d, t, user_id, org_id) ==
    [Issue(d, "t") EXCEPT !.sessions = @ \cup
        {[token |-> make_id(d, "t"), user_id |-> user_id, org_id |-> org_id,
          expires_at |-> t + SESSION_TTL_DAYS, created_at |-> t]}]

\* ------------------------------------------------------------- handlers
\* Each handler gets the database as the gate left it (d), the database as the
\* connection found it (d0, what a rollback restores), the resolved session
\* and the request.

BadFormat(d0) == Reply(d0, 400, "ValidationError")

\* GET /api/state
HandleState(d, auth) == ReplyBody(d, 200, "ok", fetch_state(d, auth.orgId))

\* A role change that does not reach the memberships table.
RoleUpdateLost(d, user_id, org_id, role) == d

\* A role change that reaches the member's memberships in every organization.
RoleUpdateEverywhere(d, user_id, org_id, role) ==
    [d EXCEPT !.memberships =
        {IF m.user_id = user_id THEN [m EXCEPT !.role = role] ELSE m : m \in @}]

RoleUpdate(d, user_id, org_id, role) ==
    [d EXCEPT !.memberships =
        {IF m.user_id = user_id /\ m.org_id = org_id THEN [m EXCEPT !.role = role] ELSE m
         : m \in @}]

\* POST /api/memberships/role
HandleRole(d, d0, auth, r) ==
    IF ~require_role(auth, {"owner"}) THEN Reply(d, 403, "Forbidden")
    ELSE IF r.payload = "garbled" THEN BadFormat(d0)
    ELSE IF r.role \notin RoleNames \/ r.email = "" THEN Reply(d, 400, "ValidationError")
    ELSE IF r.email \notin Users THEN Reply(d, 404, "NotFound")
    ELSE IF {m \in d.memberships : m.user_id = r.email /\ m.org_id = auth.orgId} = {}
         THEN Reply(d, 404, "NotFound")
    ELSE Reply(RoleUpdate(d, r.email, auth.orgId, r.role), 200, "ok")

InsertProduct(d, t, org_id, name, price, stock, purchase) ==
    [Issue(d, "p") EXCEPT !.products = @ \cup
        {[id |-> make_id(d, "p"), org_id |-> org_id, name |-> name, price |-> price,
          stock |-> stock, purchase_price |-> purchase, created_at |-> t]}]

InsertReceipt(d, t, org_id, product_id, quantity, cost) ==
    [Issue(d, "r") EXCEPT !.receipts = @ \cup
        {[id |-> make_id(d, "r"), org_id |-> org_id, product_id |-> product_id,
          quantity |-> quantity, cost |-> cost, created_at |-> t]}]

\* A receipt written for every new product, stocked or not.
InitialReceiptAlways(d, t, org_id, product_id, stock, purchase) ==
    InsertReceipt(d, t, org_id, product_id, stock, purchase)

InitialReceipt(d, t, org_id, product_id, stock, purchase) ==
    IF stock > 0 THEN InsertReceipt(d, t, org_id, product_id, stock, purchase) ELSE d

\* POST /api/products
HandleCreateProduct(d, d0, t, auth, r) ==
    IF ~require_role(auth, Writers) THEN Reply(d, 403, "Forbidden")
    ELSE IF r.payload = "garbled" THEN BadFormat(d0)
    ELSE IF r.name = "" THEN Reply(d, 400, "ValidationError")
    ELSE LET product_id == make_id(d, "p")
             price == Max0(r.price)
             stock == Max0(r.stock)
             purchase == Max0(r.purchasePrice)
             d1 == InsertProduct(d, t, auth.orgId, r.name, price, stock, purchase)
             d2 == InitialReceipt(d1, t, auth.orgId, product_id, stock, purchase)
         IN ReplyBody(d2, 201, "created", fetch_state(d2, auth.orgId))

\* The lookup without its AND org_id = ?.
ProductRowsAnyOrg(d, product_id, org_id) ==
    {p \in d.products : p.id = product_id}

ProductRows(d, product_id, org_id) ==
    {p \in d.products : p.id = product_id /\ p.org_id = org_id}

\* UPDATE org_products SET ... WHERE id = ? AND org_id = ?
\* set[p] is the row the SET clause makes of row p.
UpdateProductRow(d, product_id, org_id, set) ==
    [d EXCEPT !.products =
        {IF p.id = product_id /\ p.org_id = org_id THEN set[p] ELSE p : p \in @}]

\* A price update that stores the price as it was sent.
HandleUpdatePriceUnclamped(d, d0, auth, r) ==
    IF ~require_role(auth, Writers) THEN Reply(d, 403, "Forbidden")
    ELSE IF r.payload = "garbled" THEN BadFormat(d0)
    ELSE IF ProductRows(d, r.id, auth.orgId) = {} THEN Reply(d, 404, "NotFound")
    ELSE LET d1 == UpdateProductRow(d, r.id, auth.orgId,
                       [p \in d.products |-> [p EXCEPT !.price = r.price]])
         IN ReplyBody(d1, 200, "ok", fetch_state(d1, auth.orgId))

\* PATCH /api/products/<id>/price
HandleUpdatePrice(d, d0, auth, r) ==
    IF ~require_role(auth, Writers) THEN Reply(d, 403, "Forbidden")
    ELSE IF r.payload = "garbled" THEN BadFormat(d0)
    ELSE IF ProductRows(d, r.id, auth.orgId) = {} THEN Reply(d, 404, "NotFound")
    ELSE LET d1 == UpdateProductRow(d, r.id, auth.orgId,
                       [p \in d.products |-> [p EXCEPT !.price = Max0(r.price)]])
         IN ReplyBody(d1, 200, "ok", fetch_state(d1, auth.orgId))

\* PATCH /api/products/<id>
HandleUpdateProduct(d, d0, auth, r) ==
    IF ~require_role(auth, Writers) THEN Reply(d, 403, "Forbidden")
    ELSE IF r.payload = "garbled" THEN BadFormat(d0)
    ELSE IF r.name = "" THEN Reply(d, 400, "ValidationError")
    ELSE IF ProductRows(d, r.id, auth.orgId) = {} THEN Reply(d, 404, "NotFound")
    ELSE LET d1 == UpdateProductRow(d, r.id, auth.orgId,
                       [p \in d.products |-> [p EXCEPT !.name = r.name, !.price = Max0(r.price)]])
         IN ReplyBody(d1, 200, "ok", fetch_state(d1, auth.orgId))

\* A deletion that leaves the emptied shipments in place.
SweepNothing(d, org_id) == d

\* DELETE FROM org_shipments WHERE id IN (... HAVING COUNT(i.id) = 0)
SweepEmptyShipments(d, org_id) ==
    [d EXCEPT !.shipments =
        {s \in @ : ~(s.org_id = org_id /\ Len(ItemsOf(d, s.id)) = 0)}]

\* DELETE /api/products/<id>
HandleDeleteProduct(d, auth, r) ==
    IF ~require_role(auth, Writers) THEN Reply(d, 403, "Forbidden")
    ELSE IF ProductRows(d, r.id, auth.orgId) = {} THEN Reply(d, 404, "NotFound")
    ELSE LET d1 == [d EXCEPT !.products = @ \ ProductRows(d, r.id, auth.orgId)]
             d2 == CascadeProduct(d1, r.id)
             d3 == SweepEmptyShipments(d2, auth.orgId)
         IN ReplyBody(d3, 200, "ok", fetch_state(d3, auth.orgId))

\* A posting that takes the cost of every receipt as the purchase price.
ReceiveStockAnyCost(p, quantity, cost) ==
    [p EXCEPT !.stock = @ + quantity, !.purchase_price = cost]

\* UPDATE org_products SET stock = stock + ?, purchase_price = CASE WHEN ? > 0 ...
ReceiveStock(p, quantity, cost) ==
    [p EXCEPT !.stock = @ + quantity,
              !.purchase_price = IF cost > 0 THEN cost ELSE @]

\* The handler reading its payload before it looks at the role.
HandleCreateReceiptParseFirst(d, d0, t, auth, r) ==
    IF r.payload = "garbled" THEN BadFormat(d0)
    ELSE IF r.id = Blank \/ r.quantity <= 0 THEN Reply(d, 400, "ValidationError")
    ELSE IF ~require_role(auth, Writers) THEN Reply(d, 403, "Forbidden")
    ELSE IF ProductRows(d, r.id, auth.orgId) = {} THEN Reply(d, 404, "NotFound")
    ELSE LET cost == Max0(r.cost)
             d1 == UpdateProductRow(d, r.id, auth.orgId,
                       [p \in d.products |-> ReceiveStock(p, r.quantity, cost)])
             d2 == InsertReceipt(d1, t, auth.orgId, r.id, r.quantity, cost)
         IN ReplyBody(d2, 201, "created", fetch_state(d2, auth.orgId))

\* POST /api/receipts
HandleCreateReceipt(d, d0, t, auth, r) ==
    IF ~require_role(auth, Writers) THEN Reply(d, 403, "Forbidden")
    ELSE IF r.payload = "garbled" THEN BadFormat(d0)
    ELSE IF r.id = Blank \/ r.quantity <= 0 THEN Reply(d, 400, "ValidationError")
    ELSE IF ProductRows(d, r.id, auth.orgId) = {} THEN Reply(d, 404, "NotFound")
    ELSE LET cost == Max0(r.cost)
             d1 == UpdateProductRow(d, r.id, auth.orgId,
                       [p \in d.products |-> ReceiveStock(p, r.quantity, cost)])
             d2 == InsertReceipt(d1, t, auth.orgId, r.id, r.quantity, cost)
         IN ReplyBody(d2, 201, "created", fetch_state(d2, auth.orgId))

\* A reversal that takes the whole quantity whatever is left in stock.
ReverseStockBelowZero(p, quantity) == [p EXCEPT !.stock = @ - quantity]

\* UPDATE org_products SET stock = CASE WHEN stock - ? < 0 THEN 0 ELSE stock - ? END
ReverseStock(p, quantity) ==
    [p EXCEPT !.stock = IF @ - quantity < 0 THEN 0 ELSE @ - quantity]

\* DELETE /api/receipts/<id>
HandleDeleteReceipt(d, auth, r) ==
    LET found == {x \in d.receipts : x.id = r.id /\ x.org_id = auth.orgId} IN
    IF ~require_role(auth, Writers) THEN Reply(d, 403, "Forbidden")
    ELSE IF found = {} THEN Reply(d, 404, "NotFound")
    ELSE LET receipt == CHOOSE x \in found : TRUE
             d1 == UpdateProductRow(d, receipt.product_id, auth.orgId,
                       [p \in d.products |-> ReverseStock(p, receipt.quantity)])
             d2 == [d1 EXCEPT !.receipts =
                       {x \in @ : ~(x.id = r.id /\ x.org_id = auth.orgId)}]
         IN ReplyBody(d2, 200, "ok", fetch_state(d2, auth.orgId))

\* ------------------------------------------------------------- shipments
\* A line of a shipment request: productId, quantity, and the optional price
\* (hasPrice = FALSE is a line without "price").
BadLine(line) == line.productId = Blank \/ line.quantity <= 0

\* The pre-flight check of one line (first loop over prepared).
CheckLine(d, org_id, line) ==
    IF ProductRows(d, line.productId, org_id) = {} THEN "NotFound"
    ELSE LET product == CHOOSE p \in ProductRows(d, line.productId, org_id) : TRUE IN
         IF product.stock < line.quantity THEN "InsufficientStock" ELSE "ok"

FirstFailing(d, org_id, lines) ==
    LET bad == {k \in DOMAIN lines : CheckLine(d, org_id, lines[k]) # "ok"} IN
    IF bad = {} THEN 0 ELSE CHOOSE k \in bad : \A j \in bad : k <= j

InsertShipment(d, t, org_id) ==
    [Issue(d, "s") EXCEPT !.shipments = @ \cup
        {[id |-> make_id(d, "s"), org_id |-> org_id, created_at |-> t]}]

\* A second loop that leaves the stock as it was.
TakeNothing(p, quantity) == p

\* UPDATE org_products SET stock = stock - ?
TakeStock(p, quantity) == [p EXCEPT !.stock = @ - quantity]

\* A second loop that takes the price of the line as it was sent.
ShipLineUnclamped(d, shipment_id, org_id, line) ==
    IF ProductRows(d, line.productId, org_id) = {} THEN [ok |-> FALSE, db |-> d]
    ELSE LET product == CHOOSE p \in ProductRows(d, line.productId, org_id) : TRUE
             price == IF line.hasPrice THEN line.price ELSE product.price
             amount == price * line.quantity
             d1 == UpdateProductRow(d, line.productId, org_id,
                       [p \in d.products |-> TakeStock(p, line.quantity)])
         IN [ok |-> TRUE,
             db |-> [d1 EXCEPT !.items = Append(@,
                        [shipment_id |-> shipment_id, org_id |-> org_id,
                         product_id |-> line.productId, quantity |-> line.quantity,
                         price |-> price, amount |-> amount])]]

\* One pass of the second loop: the price, the stock update, the item row.
\* Without the product row, float(product["price"]) raises TypeError, and with
\* a price in the line the INSERT violates the foreign key: ok = FALSE.
ShipLine(d, shipment_id, org_id, line) ==
    IF ProductRows(d, line.productId, org_id) = {} THEN [ok |-> FALSE, db |-> d]
    ELSE LET product == CHOOSE p \in ProductRows(d, line.productId, org_id) : TRUE
             price == IF line.hasPrice THEN Max0(line.price) ELSE product.price
             amount == price * line.quantity
             d1 == UpdateProductRow(d, line.productId, org_id,
                       [p \in d.products |-> TakeStock(p, line.quantity)])
         IN [ok |-> TRUE,
             db |-> [d1 EXCEPT !.items = Append(@,
                        [shipment_id |-> shipment_id, org_id |-> org_id,
                         product_id |-> line.productId, quantity |-> line.quantity,
                         price |-> price, amount |-> amount])]]

RECURSIVE ShipLines(_, _, _, _, _)
ShipLines(d, shipment_id, org_id, lines, k) ==
    IF k > Len(lines) THEN [ok |-> TRUE, db |-> d]
    ELSE LET one == ShipLine(d, shipment_id, org_id, lines[k]) IN
         IF one.ok THEN ShipLines(one.db, shipment_id, org_id, lines, k + 1)
         ELSE one

\* A handler without the pre-flight loop: the header and the lines before the
\* first line it refuses are written, and the refusal is answered.
HandleCreateShipmentNoPreFlight(d, d0, t, auth, r) ==
    IF ~require_role(auth, Writers) THEN Reply(d, 403, "Forbidden")
    ELSE IF r.payload = "garbled" THEN BadFormat(d0)
    ELSE IF Len(r.lines) = 0 THEN Reply(d, 400, "ValidationError")
    ELSE IF \E k \in DOMAIN r.lines : BadLine(r.lines[k])
         THEN Reply(d, 400, "ValidationError")
    ELSE LET shipment_id == make_id(d, "s")
             bad == FirstFailing(d, auth.orgId, r.lines)
             good == IF bad = 0 THEN r.lines ELSE SubSeq(r.lines, 1, bad - 1)
             d1 == InsertShipment(d, t, auth.orgId)
             done == ShipLines(d1, shipment_id, auth.orgId, good, 1)
         IN IF ~done.ok THEN Reply(d0, 500, "InternalFailure")
            ELSE IF bad # 0
                 THEN LET why == CheckLine(d, auth.orgId, r.lines[bad])
                      IN Reply(done.db, IF why = "NotFound" THEN 404 ELSE 400, why)
            ELSE ReplyBody(done.db, 201, "created", fetch_state(done.db, auth.orgId))

\* POST /api/shipments
HandleCreateShipment(d, d0, t, auth, r) ==
    IF ~require_role(auth, Writers) THEN Reply(d, 403, "Forbidden")
    ELSE IF r.payload = "garbled" THEN BadFormat(d0)
    ELSE IF Len(r.lines) = 0 THEN Reply(d, 400, "ValidationError")
    ELSE IF \E k \in DOMAIN r.lines : BadLine(r.lines[k])
         THEN Reply(d, 400, "ValidationError")
    ELSE IF FirstFailing(d, auth.orgId, r.lines) # 0
         THEN LET why == CheckLine(d, auth.orgId, r.lines[FirstFailing(d, auth.orgId, r.lines)])
              IN Reply(d, IF why = "NotFound" THEN 404 ELSE 400, why)
    ELSE LET shipment_id == make_id(d, "s")
             d1 == InsertShipment(d, t, auth.orgId)
             done == ShipLines(d1, shipment_id, auth.orgId, r.lines, 1)
         IN IF done.ok THEN ReplyBody(done.db, 201, "created", fetch_state(done.db, auth.orgId))
            ELSE Reply(d0, 500, "InternalFailure")

\* A restore that gives back one unit whatever the item's quantity.
GiveStockOne(p, quantity) == [p EXCEPT !.stock = @ + 1]

\* UPDATE org_products SET stock = stock + ?
GiveStock(p, quantity) == [p EXCEPT !.stock = @ + quantity]

RestoreItem(d, org_id, item) ==
    UpdateProductRow(d, item.product_id, org_id, [p \in d.products |-> GiveStock(p, item.quantity)])

RECURSIVE RestoreItems(_, _, _, _)
RestoreItems(d, org_id, rows, k) ==
    IF k > Len(rows) THEN d
    ELSE RestoreItems(RestoreItem(d, org_id, rows[k]), org_id, rows, k + 1)

\* A handler that tells a shipment of another organization from no shipment.
HandleDeleteShipmentElsewhere(d, auth, r) ==
    IF ~require_role(auth, Writers) THEN Reply(d, 403, "Forbidden")
    ELSE IF \E s \in d.shipments : s.id = r.id /\ s.org_id # auth.orgId
         THEN Reply(d, 403, "Forbidden")
    ELSE IF {s \in d.shipments : s.id = r.id /\ s.org_id = auth.orgId} = {}
         THEN Reply(d, 404, "NotFound")
    ELSE LET rows == SelectSeq(d.items,
                        LAMBDA i : i.shipment_id = r.id /\ i.org_id = auth.orgId)
             d1 == RestoreItems(d, auth.orgId, rows, 1)
             d2 == [d1 EXCEPT !.shipments =
                       {s \in @ : ~(s.id = r.id /\ s.org_id = auth.orgId)}]
             d3 == CascadeShipment(d2, r.id)
         IN ReplyBody(d3, 200, "ok", fetch_state(d3, auth.orgId))

\* DELETE /api/shipments/<id>
HandleDeleteShipment(d, auth, r) ==
    IF ~require_role(auth, Writers) THEN Reply(d, 403, "Forbidden")
    ELSE IF {s \in d.shipments : s.id = r.id /\ s.org_id = auth.orgId} = {}
         THEN Reply(d, 404, "NotFound")
    ELSE LET rows == SelectSeq(d.items,
                        LAMBDA i : i.shipment_id = r.id /\ i.org_id = auth.orgId)
             d1 == RestoreItems(d, auth.orgId, rows, 1)
             d2 == [d1 EXCEPT !.shipments =
                       {s \in @ : ~(s.id = r.id /\ s.org_id = auth.orgId)}]
             d3 == CascadeShipment(d2, r.id)
         IN ReplyBody(d3, 200, "ok", fetch_state(d3, auth.orgId))

\* render_shipment_print_html: the rows of the document, or found = FALSE.
\* LEFT JOIN org_products: a row without its product prints a placeholder name.
render_shipment_print(d, org_id, shipment_id) ==
    IF {s \in d.shipments : s.id = shipment_id /\ s.org_id = org_id} = {}
    THEN [found |-> FALSE, rows |-> <<>>]
    ELSE LET rows == SelectSeq(d.items,
                        LAMBDA i : i.shipment_id = shipment_id /\ i.org_id = org_id)
         IN [found |-> TRUE,
             rows |-> [k \in DOMAIN rows |->
                 [productName |->
                      IF {p \in d.products : p.id = rows[k].product_id} = {} THEN "deleted"
                      ELSE (CHOOSE p \in d.products : p.id = rows[k].product_id).name,
                  productId |-> rows[k].product_id,
                  quantity |-> rows[k].quantity, price |-> rows[k].price,
                  amount |-> rows[k].amount]]]

\* GET /print/shipment/<id>
HandlePrint(d, auth, r) ==
    LET doc == render_shipment_print(d, auth.orgId, r.id) IN
    IF ~doc.found THEN Reply(d, 404, "NotFound")
    ELSE ReplyBody(d, 200, "ok",
             [products |-> {}, receipts |-> {},
              shipments |-> {[id |-> r.id, items |-> doc.rows]}])

\* ------------------------------------------------------------- routing
\* _route_api behind _require_auth, and do_GET's /print/shipment/.
route_api(d0, t, r) ==
    LET got == get_current_auth(d0, t, r.token)
        d == got.db
        auth == got.auth
    IN IF ~auth.ok THEN Reply(d, 401, "Unauthenticated")
       ELSE CASE r.op = "state" -> HandleState(d, auth)
              [] r.op = "print" -> HandlePrint(d, auth, r)
              [] r.op = "role" -> HandleRole(d, d0, auth, r)
              [] r.op = "createProduct" -> HandleCreateProduct(d, d0, t, auth, r)
              [] r.op = "updatePrice" -> HandleUpdatePrice(d, d0, auth, r)
              [] r.op = "updateProduct" -> HandleUpdateProduct(d, d0, auth, r)
              [] r.op = "deleteProduct" -> HandleDeleteProduct(d, auth, r)
              [] r.op = "createReceipt" -> HandleCreateReceipt(d, d0, t, auth, r)
              [] r.op = "deleteReceipt" -> HandleDeleteReceipt(d, auth, r)
              [] r.op = "createShipment" -> HandleCreateShipment(d, d0, t, auth, r)
              [] r.op = "deleteShipment" -> HandleDeleteShipment(d, auth, r)

\* verify_password against the stored hash: the stored password of a user is
\* the one that verifies.
password_of == [u \in Users |-> "pw"]

verify_password(password, user) == password = password_of[user]

\* A login bound to the membership created last.
LastMembership(d, user_id) ==
    LET mine == {m \in d.memberships : m.user_id = user_id} IN
    CHOOSE m \in mine : \A o \in mine : m.created_at >= o.created_at

\* The membership ORDER BY created_at ASC LIMIT 1 picks.
FirstMembership(d, user_id) ==
    LET mine == {m \in d.memberships : m.user_id = user_id} IN
    CHOOSE m \in mine : \A o \in mine : m.created_at <= o.created_at

\* POST /api/auth/login
HandleLogin(d, t, r) ==
    IF r.payload = "garbled" THEN BadFormat(d)
    ELSE IF r.username \notin Users \/ ~verify_password(r.password, r.username)
         THEN Reply(d, 401, "Unauthenticated")
    ELSE IF {m \in d.memberships : m.user_id = r.username} = {}
         THEN Reply(d, 403, "Forbidden")
    ELSE Reply(create_session(d, t, r.username, FirstMembership(d, r.username).org_id),
               200, "ok")

\* A logout that ends every session of the user.
HandleLogoutEverywhere(d, t, r) ==
    LET got == get_current_auth(d, t, r.token) IN
    IF got.auth.ok
    THEN Reply([got.db EXCEPT !.sessions = {s \in @ : s.user_id # got.auth.userId}], 200, "ok")
    ELSE Reply(got.db, 200, "ok")

\* POST /api/auth/logout
HandleLogout(d, t, r) ==
    LET got == get_current_auth(d, t, r.token) IN
    IF got.auth.ok
    THEN Reply([got.db EXCEPT !.sessions = {s \in @ : s.token # got.auth.token}], 200, "ok")
    ELSE Reply(got.db, 200, "ok")

route(d, t, r) ==
    CASE r.op = "login" -> HandleLogin(d, t, r)
      [] r.op = "logout" -> HandleLogout(d, t, r)
      [] OTHER -> route_api(d, t, r)

\* ------------------------------------------------------------- requests, as sets
TokenIn == 0..(MaxTokens + 1)     \* no cookie, every token, a token never handed out
PayloadIn == {"json", "garbled"}

StateReqs(toks) == {[NoReq EXCEPT !.op = "state", !.token = tok] : tok \in toks}

PrintReqs(toks) ==
    {[NoReq EXCEPT !.op = "print", !.token = tok, !.id = id]
     : tok \in toks, id \in 0..MaxShipments}

RoleReqs(toks, emails, roles) ==
    {[NoReq EXCEPT !.op = "role", !.token = tok, !.payload = pl, !.email = e, !.role = ro]
     : tok \in toks, pl \in PayloadIn, e \in emails, ro \in roles}

CreateProductReqs(toks, names, prices, stocks, purchases) ==
    {[NoReq EXCEPT !.op = "createProduct", !.token = tok, !.payload = pl, !.name = n,
                   !.price = pr, !.stock = st, !.purchasePrice = pu]
     : tok \in toks, pl \in PayloadIn, n \in names, pr \in prices, st \in stocks,
       pu \in purchases}

UpdatePriceReqs(toks, prices) ==
    {[NoReq EXCEPT !.op = "updatePrice", !.token = tok, !.payload = pl, !.id = id,
                   !.price = pr]
     : tok \in toks, pl \in PayloadIn, id \in 0..MaxProducts, pr \in prices}

UpdateProductReqs(toks, names, prices) ==
    {[NoReq EXCEPT !.op = "updateProduct", !.token = tok, !.payload = pl, !.id = id,
                   !.name = n, !.price = pr]
     : tok \in toks, pl \in PayloadIn, id \in 0..MaxProducts, n \in names, pr \in prices}

DeleteProductReqs(toks) ==
    {[NoReq EXCEPT !.op = "deleteProduct", !.token = tok, !.id = id]
     : tok \in toks, id \in 0..MaxProducts}

CreateReceiptReqs(toks, quantities, costs) ==
    {[NoReq EXCEPT !.op = "createReceipt", !.token = tok, !.payload = pl, !.id = id,
                   !.quantity = q, !.cost = c]
     : tok \in toks, pl \in PayloadIn, id \in 0..MaxProducts, q \in quantities,
       c \in costs}

DeleteReceiptReqs(toks) ==
    {[NoReq EXCEPT !.op = "deleteReceipt", !.token = tok, !.id = id]
     : tok \in toks, id \in 0..MaxReceipts}

LineIn(ids, quantities, prices) ==
    {[productId |-> id, quantity |-> q, hasPrice |-> FALSE, price |-> 0]
     : id \in ids, q \in quantities}
    \cup {[productId |-> id, quantity |-> q, hasPrice |-> TRUE, price |-> pr]
          : id \in ids, q \in quantities, pr \in prices}

LinesIn(lines, lengths) ==
    UNION {[1..n -> lines] : n \in lengths}

CreateShipmentReqs(toks, lists) ==
    {[NoReq EXCEPT !.op = "createShipment", !.token = tok, !.payload = pl, !.lines = ls]
     : tok \in toks, pl \in PayloadIn, ls \in lists}

DeleteShipmentReqs(toks) ==
    {[NoReq EXCEPT !.op = "deleteShipment", !.token = tok, !.id = id]
     : tok \in toks, id \in 0..MaxShipments}

LoginReqs ==
    {[NoReq EXCEPT !.op = "login", !.payload = pl, !.username = u, !.password = pw]
     : pl \in PayloadIn, u \in Users \cup {"nobody"}, pw \in {"pw", "guess"}}

LogoutReqs(toks) == {[NoReq EXCEPT !.op = "logout", !.token = tok] : tok \in toks}

\* The requests whose body parses, and one request with a body that does not
\* for each route, cookie and path (nothing else of such a request is read).
Json(reqs) == {r \in reqs : r.payload = "json"}

Garbled(reqs) ==
    {[NoReq EXCEPT !.op = r.op, !.token = r.token, !.id = r.id, !.payload = "garbled"]
     : r \in {x \in reqs : x.payload = "garbled"}}

Wire(reqs) == Json(reqs) \cup Garbled(reqs)

\* ------------------------------------------------------------- serving, one at a time
\* The ids a request would need beyond the pools of the model.
Fits(d) ==
    /\ d.issued["p"] <= MaxProducts
    /\ d.issued["r"] <= MaxReceipts
    /\ d.issued["s"] <= MaxShipments
    /\ d.issued["t"] <= MaxTokens

Install(d) ==
    /\ products' = d.products
    /\ receipts' = d.receipts
    /\ shipments' = d.shipments
    /\ items' = d.items
    /\ memberships' = d.memberships
    /\ sessions' = d.sessions
    /\ issued' = d.issued

\* One request served from its db_conn() to its commit, no other in between.
Serve(r) ==
    LET out == route(DB, now, r) IN
    /\ Fits(out.db)
    /\ Install(out.db)
    /\ UNCHANGED <<now, conn, lock>>

TickStep == SESSION_TTL_DAYS \div 2

\* Time passes between two requests.
Tick ==
    /\ now + TickStep <= MaxTime
    /\ now' = now + TickStep
    /\ UNCHANGED <<dbvars, conn, lock>>

\* ------------------------------------------------------------- the database at start
\* A database file init_db() finds populated: two organizations, their
\* members, one product with its receipt in each.
InitMemberships ==
    {[user_id |-> "u1", org_id |-> "o1", role |-> "owner", created_at |-> 0],
     [user_id |-> "u2", org_id |-> "o1", role |-> "manager", created_at |-> 0 - 1],
     [user_id |-> "u3", org_id |-> "o2", role |-> "owner", created_at |-> 0],
     [user_id |-> "u2", org_id |-> "o2", role |-> "viewer", created_at |-> 0]}

InitProducts ==
    {[id |-> 1, org_id |-> "o1", name |-> "A", price |-> 1, stock |-> 2,
      purchase_price |-> 1, created_at |-> 0],
     [id |-> 2, org_id |-> "o2", name |-> "A", price |-> 1, stock |-> 1,
      purchase_price |-> 1, created_at |-> 0]}

InitReceipts ==
    {[id |-> 1, org_id |-> "o1", product_id |-> 1, quantity |-> 2, cost |-> 1,
      created_at |-> 0],
     [id |-> 2, org_id |-> "o2", product_id |-> 2, quantity |-> 2, cost |-> 1,
      created_at |-> 0]}

InitShipments == {[id |-> 1, org_id |-> "o2", created_at |-> 0]}

InitItems ==
    <<[shipment_id |-> 1, org_id |-> "o2", product_id |-> 2, quantity |-> 1,
       price |-> 1, amount |-> 1]>>

\* ------------------------------------------------------------- Spec: the gate
\* Requests served one at a time at one instant, by sessions of both
\* organizations: three live sessions and one whose expiry has come.
InitSessions ==
    {[token |-> 1, user_id |-> "u1", org_id |-> "o1",
      expires_at |-> 2 * SESSION_TTL_DAYS, created_at |-> SESSION_TTL_DAYS],
     [token |-> 2, user_id |-> "u2", org_id |-> "o1",
      expires_at |-> 2 * SESSION_TTL_DAYS, created_at |-> SESSION_TTL_DAYS],
     [token |-> 3, user_id |-> "u3", org_id |-> "o2",
      expires_at |-> 2 * SESSION_TTL_DAYS, created_at |-> SESSION_TTL_DAYS],
     [token |-> 4, user_id |-> "u2", org_id |-> "o1",
      expires_at |-> SESSION_TTL_DAYS, created_at |-> 0]}

Init ==
    /\ products = InitProducts
    /\ receipts = InitReceipts
    /\ shipments = InitShipments
    /\ items = InitItems
    /\ memberships = InitMemberships
    /\ sessions = InitSessions
    /\ issued = [x \in {"p", "r", "s", "t"} |->
                    IF x = "p" THEN 2 ELSE IF x = "r" THEN 2 ELSE IF x = "s" THEN 1 ELSE 4]
    /\ now = SESSION_TTL_DAYS
    /\ conn = <<>>
    /\ lock = 0

\* The live sessions of organization o1 (the owner's and the second member's)
\* send the requests that change the database; the requests of every session
\* and of every cookie that is none are judged in each state reached.
GateTokens == {1, 2}
GateLists == LinesIn(LineIn({1, 3}, {1}, {}), {1})

ListState == \E r \in StateReqs(GateTokens) : Serve(r)
PrintShipment == \E r \in PrintReqs(GateTokens) : Serve(r)
ChangeRole == \E r \in Wire(RoleReqs(GateTokens, {"u2"}, {"manager", "viewer"})) : Serve(r)
CreateProduct == \E r \in Wire(CreateProductReqs(GateTokens, {"B"}, {2}, {1}, {1})) : Serve(r)
UpdatePrice == \E r \in Wire(UpdatePriceReqs(GateTokens, {2})) : Serve(r)
UpdateProduct == \E r \in Wire(UpdateProductReqs(GateTokens, {"B"}, {2})) : Serve(r)
DeleteProduct == \E r \in DeleteProductReqs(GateTokens) : Serve(r)
CreateReceipt == \E r \in Wire(CreateReceiptReqs(GateTokens, {1}, {0})) : Serve(r)
DeleteReceipt == \E r \in DeleteReceiptReqs(GateTokens) : Serve(r)
CreateShipment == \E r \in Wire(CreateShipmentReqs(GateTokens, GateLists)) : Serve(r)
DeleteShipment == \E r \in DeleteShipmentReqs(GateTokens) : Serve(r)

Next ==
    \/ ListState
    \/ PrintShipment
    \/ ChangeRole
    \/ CreateProduct
    \/ UpdatePrice
    \/ UpdateProduct
    \/ DeleteProduct
    \/ CreateReceipt
    \/ DeleteReceipt
    \/ CreateShipment
    \/ DeleteShipment

Spec == Init /\ [][Next]_vars

\* ------------------------------------------------------------- SpecLedger: the ledger
\* The owner of o1 works the ledger alone, one request at a time: products
\* with and without initial stock, receipts, shipments of the first product in
\* one line or in several lines of one quantity, and the deletions.
Owner == 1
LedgerStocks == (0 - 1)..MaxQty
LedgerCosts == {0 - 1, 0, 2}
LedgerLists ==
    {[k \in 1..n |-> line] : n \in 1..MaxLines, line \in LineIn({1}, 1..MaxQty, {})}

LedgerCreateProduct ==
    \E r \in Json(CreateProductReqs({Owner}, {"B"}, {1}, {0, MaxQty}, {2})) : Serve(r)
LedgerCreateReceipt ==
    \E r \in Json(CreateReceiptReqs({Owner}, {MaxQty}, {0})) : Serve(r)
LedgerDeleteReceipt == \E r \in DeleteReceiptReqs({Owner}) : Serve(r)
LedgerCreateShipment == \E r \in Json(CreateShipmentReqs({Owner}, LedgerLists)) : Serve(r)
LedgerDeleteShipment == \E r \in DeleteShipmentReqs({Owner}) : Serve(r)
LedgerDeleteProduct == \E r \in DeleteProductReqs({Owner}) : Serve(r)

NextLedger ==
    \/ LedgerCreateProduct
    \/ LedgerCreateReceipt
    \/ LedgerDeleteReceipt
    \/ LedgerCreateShipment
    \/ LedgerDeleteShipment
    \/ LedgerDeleteProduct

SpecLedger == Init /\ [][NextLedger]_vars

\* ------------------------------------------------------------- SpecDesk: both organizations at work
\* The owner of o1 changes the role of the second member; the owner of o2
\* makes a second product, ships both products in one line or two, and deletes
\* shipments, receipts and products.
DeskLists == LinesIn(LineIn({2, 3}, {1}, {}), {1, 2})

DeskChangeRole == \E r \in Json(RoleReqs({Owner}, {"u2"}, RoleNames)) : Serve(r)
DeskCreateProduct == \E r \in Json(CreateProductReqs({3}, {"B"}, {1}, {0, 1}, {1})) : Serve(r)
DeskDeleteReceipt == \E r \in DeleteReceiptReqs({3}) : Serve(r)
DeskCreateShipment == \E r \in Json(CreateShipmentReqs({3}, DeskLists)) : Serve(r)
DeskDeleteShipment == \E r \in DeleteShipmentReqs({3}) : Serve(r)
DeskDeleteProduct == \E r \in DeleteProductReqs({3}) : Serve(r)

NextDesk ==
    \/ DeskChangeRole
    \/ DeskCreateProduct
    \/ DeskDeleteReceipt
    \/ DeskCreateShipment
    \/ DeskDeleteShipment
    \/ DeskDeleteProduct

SpecDesk == Init /\ [][NextDesk]_vars

\* ------------------------------------------------------------- SpecAuth: sessions and roles
\* Time passes; members log in and out, sessions run out, the owner changes
\* roles, and every session reads the state.
InitAuthSessions ==
    {[token |-> 1, user_id |-> "u1", org_id |-> "o1",
      expires_at |-> SESSION_TTL_DAYS, created_at |-> 0],
     [token |-> 2, user_id |-> "u2", org_id |-> "o1",
      expires_at |-> TickStep, created_at |-> TickStep - SESSION_TTL_DAYS]}

InitAuth ==
    /\ products = InitProducts
    /\ receipts = InitReceipts
    /\ shipments = InitShipments
    /\ items = InitItems
    /\ memberships = InitMemberships
    /\ sessions = InitAuthSessions
    /\ issued = [x \in {"p", "r", "s", "t"} |->
                    IF x = "p" THEN 2 ELSE IF x = "r" THEN 2 ELSE IF x = "s" THEN 1 ELSE 2]
    /\ now = 0
    /\ conn = <<>>
    /\ lock = 0

Login == \E r \in {x \in LoginReqs : x.username # "u3"} : Serve(r)
Logout == \E r \in LogoutReqs(TokenIn) : Serve(r)
AuthListState == \E r \in StateReqs(TokenIn) : Serve(r)
AuthChangeRole == \E r \in RoleReqs(TokenIn, {"u2"}, RoleNames) : Serve(r)

NextAuth ==
    \/ Tick
    \/ Login
    \/ Logout
    \/ AuthListState
    \/ AuthChangeRole

SpecAuth == InitAuth /\ [][NextAuth]_vars

\* ------------------------------------------------------------- SpecConc: two requests at once
\* ThreadingHTTPServer gives each request a thread and db_conn() gives each
\* thread its own connection.  sqlite3 opens a transaction before the first
\* INSERT, UPDATE or DELETE of a connection and not before a SELECT: a SELECT
\* outside a transaction reads the database as committed at that moment.
\* lock is the connection holding the database's write lock (0: nobody);
\* conn[c] is the place of connection c in its handler: the request, the
\* resolved session, the uncommitted database of its transaction (work), the
\* line or the shipment it is at, and the snapshot read so far.
Conns == {1, 2}

Other(c) == CHOOSE o \in Conns : o # c

Fresh ==
    [pc |-> "idle", req |-> NoReq, auth |-> NoAuth, work |-> <<>>, k |-> 0, sid |-> 0,
     body |-> NoBody, todo |-> {}, resp |-> NoResp, overlap |-> FALSE]

InFlight(c) == conn[c].pc \notin {"idle", "done"}

\* The handler returns; the connection is closed.
Done(c, resp) ==
    [conn[c] EXCEPT !.pc = "done", !.resp = resp, !.work = <<>>, !.k = 0, !.todo = {}]

InitConc ==
    /\ products = InitProducts
    /\ receipts = InitReceipts
    /\ shipments = InitShipments
    /\ items = InitItems
    /\ memberships = InitMemberships
    /\ sessions = InitSessions
    /\ issued = [x \in {"p", "r", "s", "t"} |->
                    IF x = "p" THEN 2 ELSE IF x = "r" THEN 2 ELSE IF x = "s" THEN 1 ELSE 4]
    /\ now = SESSION_TTL_DAYS
    /\ conn = [c \in Conns |-> Fresh]
    /\ lock = 0

ConcTokens == {1, 4}
ConcLists == LinesIn(LineIn({1}, 1..MaxQty, {}), 1..MaxLines)
ConcReqs == StateReqs(ConcTokens) \cup Json(CreateShipmentReqs(ConcTokens, ConcLists))

\* do_GET / do_POST: a thread takes a request.
Accept(c) ==
    /\ conn[c].pc = "idle"
    /\ \E r \in ConcReqs :
          conn' = [conn EXCEPT
                      ![c] = [Fresh EXCEPT !.pc = "auth", !.req = r,
                                           !.overlap = InFlight(Other(c))],
                      ![Other(c)] = [@ EXCEPT !.overlap = @ \/ InFlight(Other(c))]]
    /\ UNCHANGED <<dbvars, now, lock>>

\* _require_auth: the SELECT of the session; the DELETE of an expired one
\* takes the write lock and is committed when the handler returns.
Authenticate(c) ==
    /\ conn[c].pc = "auth"
    /\ LET got == get_current_auth(DB, now, conn[c].req.token) IN
       IF got.auth.ok
       THEN /\ conn' = [conn EXCEPT ![c] =
                          [@ EXCEPT !.auth = got.auth,
                                    !.pc = IF conn[c].req.op = "state" THEN "products"
                                           ELSE "validate"]]
            /\ UNCHANGED <<dbvars, lock>>
       ELSE /\ got.db # DB => lock = 0
            /\ Install(got.db)
            /\ conn' = [conn EXCEPT ![c] = Done(c, Reply(DB, 401, "Unauthenticated").resp)]
            /\ UNCHANGED lock
    /\ UNCHANGED now

\* POST /api/shipments up to the prepared list: no statement is run.
Validate(c) ==
    /\ conn[c].pc = "validate"
    /\ LET r == conn[c].req IN
       conn' = [conn EXCEPT ![c] =
          IF ~require_role(conn[c].auth, Writers) THEN Done(c, Reply(DB, 403, "Forbidden").resp)
          ELSE IF r.payload = "garbled" THEN Done(c, BadFormat(DB).resp)
          ELSE IF Len(r.lines) = 0 \/ \E k \in DOMAIN r.lines : BadLine(r.lines[k])
               THEN Done(c, Reply(DB, 400, "ValidationError").resp)
          ELSE [@ EXCEPT !.pc = "check", !.k = 1]]
    /\ UNCHANGED <<dbvars, now, lock>>

\* One round of the first loop: the SELECT of the line's product.
PreFlight(c) ==
    /\ conn[c].pc = "check"
    /\ LET r == conn[c].req
           why == CheckLine(DB, conn[c].auth.orgId, r.lines[conn[c].k])
       IN conn' = [conn EXCEPT ![c] =
             IF why # "ok"
             THEN Done(c, Reply(DB, IF why = "NotFound" THEN 404 ELSE 400, why).resp)
             ELSE IF conn[c].k < Len(r.lines) THEN [@ EXCEPT !.k = @ + 1]
             ELSE [@ EXCEPT !.pc = "insert", !.k = 0]]
    /\ UNCHANGED <<dbvars, now, lock>>

\* INSERT INTO org_shipments: the connection's first write opens its
\* transaction and takes the write lock.
InsertHeader(c) ==
    /\ conn[c].pc = "insert"
    /\ lock = 0
    /\ lock' = c
    /\ conn' = [conn EXCEPT ![c] =
          [@ EXCEPT !.pc = "ship", !.k = 1, !.sid = make_id(DB, "s"),
                    !.work = InsertShipment(DB, now, conn[c].auth.orgId)]]
    /\ UNCHANGED <<dbvars, now>>

\* One round of the second loop, inside the transaction; a statement that
\* raises rolls the transaction back.
ShipNext(c) ==
    /\ conn[c].pc = "ship"
    /\ LET r == conn[c].req
           one == ShipLine(conn[c].work, conn[c].sid, conn[c].auth.orgId, r.lines[conn[c].k])
       IN IF ~one.ok
          THEN /\ conn' = [conn EXCEPT ![c] = Done(c, Reply(DB, 500, "InternalFailure").resp)]
               /\ lock' = 0
          ELSE /\ conn' = [conn EXCEPT ![c] =
                     IF conn[c].k < Len(r.lines)
                     THEN [@ EXCEPT !.work = one.db, !.k = @ + 1]
                     ELSE [@ EXCEPT !.work = one.db, !.pc = "commit", !.k = 0]]
               /\ UNCHANGED lock
    /\ UNCHANGED <<dbvars, now>>

\* fetch_state inside the transaction, the answer, and db_conn()'s commit.
Commit(c) ==
    /\ conn[c].pc = "commit"
    /\ Install(conn[c].work)
    /\ lock' = 0
    /\ conn' = [conn EXCEPT ![c] =
          Done(c, ReplyBody(conn[c].work, 201, "created",
                            fetch_state(conn[c].work, conn[c].auth.orgId)).resp)]
    /\ UNCHANGED now

\* The write lock is held by the other connection until the busy timeout of
\* sqlite3.connect runs out: OperationalError, answered 500.
WillWrite(c) ==
    \/ conn[c].pc = "insert"
    \/ conn[c].pc = "auth" /\ get_current_auth(DB, now, conn[c].req.token).db # DB

Busy(c) ==
    /\ WillWrite(c)
    /\ lock = Other(c)
    /\ conn' = [conn EXCEPT ![c] = Done(c, Reply(DB, 500, "InternalFailure").resp)]
    /\ UNCHANGED <<dbvars, now, lock>>

\* GET /api/state: fetch_state's SELECTs, one at a time, no transaction open.
ReadProducts(c) ==
    /\ conn[c].pc = "products"
    /\ conn' = [conn EXCEPT ![c] =
          [@ EXCEPT !.pc = "receipts",
                    !.body.products = fetch_state(DB, conn[c].auth.orgId).products]]
    /\ UNCHANGED <<dbvars, now, lock>>

ReadReceipts(c) ==
    /\ conn[c].pc = "receipts"
    /\ conn' = [conn EXCEPT ![c] =
          [@ EXCEPT !.pc = "shipments",
                    !.body.receipts = fetch_state(DB, conn[c].auth.orgId).receipts]]
    /\ UNCHANGED <<dbvars, now, lock>>

ReadShipments(c) ==
    /\ conn[c].pc = "shipments"
    /\ LET rows == {sh \in shipments : sh.org_id = conn[c].auth.orgId}
           heads == {[id |-> sh.id, createdAt |-> sh.created_at, items |-> <<>>] : sh \in rows}
       IN conn' = [conn EXCEPT ![c] =
             IF rows = {}
             THEN Done(c, ReplyBody(DB, 200, "ok", [conn[c].body EXCEPT !.shipments = {}]).resp)
             ELSE [@ EXCEPT !.pc = "items", !.body.shipments = heads,
                            !.todo = {sh.id : sh \in rows}]]
    /\ UNCHANGED <<dbvars, now, lock>>

\* The items of one shipment row, in the order of the rows fetched.
ItemsRead(d, sid) ==
    [k \in DOMAIN ItemsOf(d, sid) |->
        [productId |-> ItemsOf(d, sid)[k].product_id,
         quantity |-> ItemsOf(d, sid)[k].quantity,
         price |-> ItemsOf(d, sid)[k].price,
         amount |-> ItemsOf(d, sid)[k].amount]]

ReadItems(c) ==
    /\ conn[c].pc = "items"
    /\ LET sid == CHOOSE x \in conn[c].todo : \A y \in conn[c].todo : x <= y
           body == [conn[c].body EXCEPT !.shipments =
                       {IF sh.id = sid THEN [sh EXCEPT !.items = ItemsRead(DB, sid)] ELSE sh
                        : sh \in @}]
       IN conn' = [conn EXCEPT ![c] =
             IF conn[c].todo = {sid}
             THEN [Done(c, ReplyBody(DB, 200, "ok", body).resp) EXCEPT !.body = body]
             ELSE [@ EXCEPT !.body = body, !.todo = @ \ {sid}]]
    /\ UNCHANGED <<dbvars, now, lock>>

NextConc ==
    \E c \in Conns :
        \/ Accept(c)
        \/ Authenticate(c)
        \/ Validate(c)
        \/ PreFlight(c)
        \/ InsertHeader(c)
        \/ ShipNext(c)
        \/ Commit(c)
        \/ Busy(c)
        \/ ReadProducts(c)
        \/ ReadReceipts(c)
        \/ ReadShipments(c)
        \/ ReadItems(c)

SpecConc == InitConc /\ [][NextConc]_vars

\* ------------------------------------------------------------- SpecUndo: two deletions at once
\* Two threads serve DELETE /api/shipments/<id> or DELETE /api/receipts/<id>,
\* each on its own connection.  The SELECT of the row (and of the shipment's
\* items) runs before the connection's first UPDATE or DELETE, so outside its
\* transaction; the first write takes the write lock, and the writes are made
\* on the database as committed at that moment.
\* conn[c]: the place in the handler, the request, the session, the receipt
\* row or the item rows fetched, the item at hand, the uncommitted database.
Idle ==
    [pc |-> "idle", req |-> NoReq, auth |-> NoAuth, row |-> <<>>, rows |-> <<>>, k |-> 0,
     work |-> <<>>, resp |-> NoResp]

Returned(c, resp) ==
    [Idle EXCEPT !.pc = "done", !.req = conn[c].req, !.auth = conn[c].auth, !.resp = resp]

\* Organization o2 with two receipts of its product and one shipment of it.
UndoProducts ==
    {[id |-> 1, org_id |-> "o1", name |-> "A", price |-> 1, stock |-> 2,
      purchase_price |-> 1, created_at |-> 0],
     [id |-> 2, org_id |-> "o2", name |-> "A", price |-> 1, stock |-> 5,
      purchase_price |-> 1, created_at |-> 0]}

UndoReceipts ==
    InitReceipts \cup
    {[id |-> 3, org_id |-> "o2", product_id |-> 2, quantity |-> 4, cost |-> 1,
      created_at |-> 0]}

InitUndo ==
    /\ products = UndoProducts
    /\ receipts = UndoReceipts
    /\ shipments = InitShipments
    /\ items = InitItems
    /\ memberships = InitMemberships
    /\ sessions = InitSessions
    /\ issued = [x \in {"p", "r", "s", "t"} |->
                    IF x = "p" THEN 2 ELSE IF x = "r" THEN 3 ELSE IF x = "s" THEN 1 ELSE 4]
    /\ now = SESSION_TTL_DAYS
    /\ conn = [c \in Conns |-> Idle]
    /\ lock = 0

UndoStart ==
    [products |-> UndoProducts, receipts |-> UndoReceipts, shipments |-> InitShipments,
     items |-> InitItems, memberships |-> InitMemberships, sessions |-> InitSessions,
     issued |-> [x \in {"p", "r", "s", "t"} |->
                    IF x = "p" THEN 2 ELSE IF x = "r" THEN 3 ELSE IF x = "s" THEN 1 ELSE 4]]

UndoTokens == {2, 3}
UndoReqs == DeleteShipmentReqs(UndoTokens) \cup DeleteReceiptReqs(UndoTokens)

\* do_DELETE: a thread takes a request.
UndoAccept(c) ==
    /\ conn[c].pc = "idle"
    /\ \E r \in UndoReqs : conn' = [conn EXCEPT ![c] = [Idle EXCEPT !.pc = "auth", !.req = r]]
    /\ UNCHANGED <<dbvars, now, lock>>

\* _require_auth (the sessions here are live) and _require_role.
UndoAuthenticate(c) ==
    /\ conn[c].pc = "auth"
    /\ LET got == get_current_auth(DB, now, conn[c].req.token) IN
       conn' = [conn EXCEPT ![c] =
          IF ~got.auth.ok THEN Returned(c, Reply(DB, 401, "Unauthenticated").resp)
          ELSE IF ~require_role(got.auth, Writers) THEN Returned(c, Reply(DB, 403, "Forbidden").resp)
          ELSE [@ EXCEPT !.auth = got.auth, !.pc = "find"]]
    /\ UNCHANGED <<dbvars, now, lock>>

\* SELECT id FROM org_shipments / SELECT * FROM org_receipts WHERE id = ? AND
\* org_id = ?, on the database as committed now.
FindRow(c) ==
    /\ conn[c].pc = "find"
    /\ LET r == conn[c].req
           o == conn[c].auth.orgId
           found == IF r.op = "deleteShipment"
                    THEN {s \in shipments : s.id = r.id /\ s.org_id = o}
                    ELSE {x \in receipts : x.id = r.id /\ x.org_id = o}
       IN conn' = [conn EXCEPT ![c] =
             IF found = {} THEN Returned(c, Reply(DB, 404, "NotFound").resp)
             ELSE IF r.op = "deleteShipment" THEN [@ EXCEPT !.pc = "rows"]
             ELSE [@ EXCEPT !.pc = "reverse", !.row = CHOOSE x \in found : TRUE]]
    /\ UNCHANGED <<dbvars, now, lock>>

\* SELECT product_id, quantity FROM org_shipment_items, as committed now.
ReadRows(c) ==
    /\ conn[c].pc = "rows"
    /\ LET rows == SelectSeq(items, LAMBDA i : i.shipment_id = conn[c].req.id
                                              /\ i.org_id = conn[c].auth.orgId)
       IN conn' = [conn EXCEPT ![c] =
             [@ EXCEPT !.rows = rows, !.k = 1,
                       !.pc = IF Len(rows) = 0 THEN "delete" ELSE "restore"]]
    /\ UNCHANGED <<dbvars, now, lock>>

\* A store whose connections write without waiting for one another.
WritableAlways(c) == TRUE

\* The database a statement of connection c writes to: its transaction, or,
\* for its first write, the committed database, once the write lock is free.
Writable(c) == lock \in {0, c}

Base(c) == IF lock = c THEN conn[c].work ELSE DB

\* One round of the loop over the items: UPDATE org_products SET stock = stock + ?
Restore(c) ==
    /\ conn[c].pc = "restore"
    /\ Writable(c)
    /\ lock' = c
    /\ conn' = [conn EXCEPT ![c] =
          [@ EXCEPT !.work = RestoreItem(Base(c), conn[c].auth.orgId, conn[c].rows[conn[c].k]),
                    !.k = @ + 1,
                    !.pc = IF conn[c].k < Len(conn[c].rows) THEN "restore" ELSE "delete"]]
    /\ UNCHANGED <<dbvars, now>>

\* UPDATE org_products SET stock = CASE WHEN stock - ? < 0 ..., with the
\* quantity and the product of the receipt row fetched.
Reverse(c) ==
    /\ conn[c].pc = "reverse"
    /\ Writable(c)
    /\ lock' = c
    /\ conn' = [conn EXCEPT ![c] =
          [@ EXCEPT !.work = UpdateProductRow(Base(c), conn[c].row.product_id,
                                  conn[c].auth.orgId,
                                  [p \in Base(c).products |->
                                      ReverseStock(p, conn[c].row.quantity)]),
                    !.pc = "delete"]]
    /\ UNCHANGED <<dbvars, now>>

\* DELETE FROM org_shipments / org_receipts WHERE id = ? AND org_id = ?
DeleteRow(c) ==
    /\ conn[c].pc = "delete"
    /\ Writable(c)
    /\ lock' = c
    /\ LET r == conn[c].req
           o == conn[c].auth.orgId
           d == Base(c)
       IN conn' = [conn EXCEPT ![c] =
             [@ EXCEPT !.pc = "commit",
                       !.work =
                          IF r.op = "deleteShipment"
                          THEN IF \E s \in d.shipments : s.id = r.id /\ s.org_id = o
                               THEN CascadeShipment(
                                       [d EXCEPT !.shipments =
                                           {s \in @ : ~(s.id = r.id /\ s.org_id = o)}], r.id)
                               ELSE d
                          ELSE [d EXCEPT !.receipts =
                                   {x \in @ : ~(x.id = r.id /\ x.org_id = o)}]]]
    /\ UNCHANGED <<dbvars, now>>

\* fetch_state inside the transaction, the answer, and db_conn()'s commit.
UndoCommit(c) ==
    /\ conn[c].pc = "commit"
    /\ Install(conn[c].work)
    /\ lock' = 0
    /\ conn' = [conn EXCEPT ![c] =
          Returned(c, ReplyBody(conn[c].work, 200, "ok",
                                fetch_state(conn[c].work, conn[c].auth.orgId)).resp)]
    /\ UNCHANGED now

\* The other connection holds the write lock until the busy timeout runs out.
UndoBusy(c) ==
    /\ conn[c].pc \in {"restore", "reverse", "delete"}
    /\ lock = Other(c)
    /\ conn' = [conn EXCEPT ![c] = Returned(c, Reply(DB, 500, "InternalFailure").resp)]
    /\ UNCHANGED <<dbvars, now, lock>>

NextUndo ==
    \E c \in Conns :
        \/ UndoAccept(c)
        \/ UndoAuthenticate(c)
        \/ FindRow(c)
        \/ ReadRows(c)
        \/ Restore(c)
        \/ Reverse(c)
        \/ DeleteRow(c)
        \/ UndoCommit(c)
        \/ UndoBusy(c)

SpecUndo == InitUndo /\ [][NextUndo]_vars

\* ------------------------------------------------------------- SpecRace: writers at once
\* Two threads serve POST /api/receipts, POST /api/shipments or
\* DELETE /api/products/<id> for organization o1, each on its own connection:
\* the SELECTs before a connection's first write read the committed database,
\* the first write takes the write lock, the handler's return commits.
RaceLists == LinesIn(LineIn({1}, {1}, {2}), {1, 2})

RaceReqs ==
    Json(CreateReceiptReqs({Owner}, {1, MaxQty}, {0}))
    \cup Json(CreateShipmentReqs({2}, RaceLists))
    \cup DeleteProductReqs({Owner})

RaceAccept(c) ==
    /\ conn[c].pc = "idle"
    /\ \E r \in RaceReqs : conn' = [conn EXCEPT ![c] = [Idle EXCEPT !.pc = "auth", !.req = r]]
    /\ UNCHANGED <<dbvars, now, lock>>

\* A database whose foreign keys are not enforced.
ReferencesAnything(d, product_id) == TRUE

\* PRAGMA foreign_keys = ON: a row naming a product is inserted only while
\* the product row is there.
ReferencesProduct(d, product_id) == \E p \in d.products : p.id = product_id

\* The transaction is rolled back and the exception answered 500.
RolledBack(c) == Returned(c, Reply(DB, 500, "InternalFailure").resp)

\* What runs before the first statement of the handler that writes: the
\* payload is read and, for a receipt, the product is looked up (SELECT id).
Prepare(c) ==
    /\ conn[c].pc = "find"
    /\ LET r == conn[c].req
           o == conn[c].auth.orgId
       IN conn' = [conn EXCEPT ![c] =
             IF r.op = "deleteProduct" THEN [@ EXCEPT !.pc = "remove"]
             ELSE IF r.payload = "garbled" THEN Returned(c, BadFormat(DB).resp)
             ELSE IF r.op = "createReceipt"
                  THEN IF r.id = Blank \/ r.quantity <= 0
                       THEN Returned(c, Reply(DB, 400, "ValidationError").resp)
                       ELSE IF ProductRows(DB, r.id, o) = {}
                            THEN Returned(c, Reply(DB, 404, "NotFound").resp)
                       ELSE [@ EXCEPT !.pc = "post"]
             ELSE IF Len(r.lines) = 0 \/ \E k \in DOMAIN r.lines : BadLine(r.lines[k])
                  THEN Returned(c, Reply(DB, 400, "ValidationError").resp)
             ELSE [@ EXCEPT !.pc = "check", !.k = 1]]
    /\ UNCHANGED <<dbvars, now, lock>>

\* POST /api/receipts: UPDATE org_products SET stock = stock + ?, ...
Post(c) ==
    /\ conn[c].pc = "post"
    /\ Writable(c)
    /\ lock' = c
    /\ LET r == conn[c].req IN
       conn' = [conn EXCEPT ![c] =
          [@ EXCEPT !.pc = "record",
                    !.work = UpdateProductRow(Base(c), r.id, conn[c].auth.orgId,
                                [p \in Base(c).products |->
                                    ReceiveStock(p, r.quantity, Max0(r.cost))])]]
    /\ UNCHANGED <<dbvars, now>>

\* POST /api/receipts: INSERT INTO org_receipts.
Record(c) ==
    /\ conn[c].pc = "record"
    /\ LET r == conn[c].req IN
       IF ReferencesProduct(conn[c].work, r.id)
       THEN /\ conn' = [conn EXCEPT ![c] =
                  [@ EXCEPT !.pc = "commit",
                            !.work = InsertReceipt(conn[c].work, now, conn[c].auth.orgId,
                                                   r.id, r.quantity, Max0(r.cost))]]
            /\ UNCHANGED lock
       ELSE /\ conn' = [conn EXCEPT ![c] = RolledBack(c)]
            /\ lock' = 0
    /\ UNCHANGED <<dbvars, now>>

\* DELETE /api/products/<id>: DELETE FROM org_products, the first statement;
\* without a row deleted the handler answers 404 and returns.
Remove(c) ==
    /\ conn[c].pc = "remove"
    /\ Writable(c)
    /\ LET r == conn[c].req
           o == conn[c].auth.orgId
           d == Base(c)
       IN IF ProductRows(d, r.id, o) = {}
          THEN /\ conn' = [conn EXCEPT ![c] = Returned(c, Reply(DB, 404, "NotFound").resp)]
               /\ UNCHANGED lock
          ELSE /\ conn' = [conn EXCEPT ![c] =
                     [@ EXCEPT !.pc = "sweep",
                               !.work = CascadeProduct(
                                           [d EXCEPT !.products = @ \ ProductRows(d, r.id, o)],
                                           r.id)]]
               /\ lock' = c
    /\ UNCHANGED <<dbvars, now>>

\* DELETE /api/products/<id>: the DELETE of the shipments left without items.
Sweep(c) ==
    /\ conn[c].pc = "sweep"
    /\ conn' = [conn EXCEPT ![c] =
          [@ EXCEPT !.pc = "commit",
                    !.work = SweepEmptyShipments(conn[c].work, conn[c].auth.orgId)]]
    /\ UNCHANGED <<dbvars, now, lock>>

\* POST /api/shipments: one round of the first loop, on the committed database.
RaceCheck(c) ==
    /\ conn[c].pc = "check"
    /\ LET r == conn[c].req
           why == CheckLine(DB, conn[c].auth.orgId, r.lines[conn[c].k])
       IN conn' = [conn EXCEPT ![c] =
             IF why # "ok"
             THEN Returned(c, Reply(DB, IF why = "NotFound" THEN 404 ELSE 400, why).resp)
             ELSE IF conn[c].k < Len(r.lines) THEN [@ EXCEPT !.k = @ + 1]
             ELSE [@ EXCEPT !.pc = "header", !.k = 0]]
    /\ UNCHANGED <<dbvars, now, lock>>

\* POST /api/shipments: INSERT INTO org_shipments, the first write.
Header(c) ==
    /\ conn[c].pc = "header"
    /\ Writable(c)
    /\ lock' = c
    /\ conn' = [conn EXCEPT ![c] =
          [@ EXCEPT !.pc = "ship", !.k = 1,
                    !.row = [shipment_id |-> make_id(Base(c), "s")],
                    !.work = InsertShipment(Base(c), now, conn[c].auth.orgId)]]
    /\ UNCHANGED <<dbvars, now>>

\* A failure in the second loop that leaves what the transaction wrote.
RaceShipHalf(c) ==
    /\ conn[c].pc = "ship"
    /\ LET r == conn[c].req
           one == ShipLine(conn[c].work, conn[c].row.shipment_id, conn[c].auth.orgId,
                           r.lines[conn[c].k])
       IN IF ~one.ok
          THEN /\ conn' = [conn EXCEPT ![c] = RolledBack(c)]
               /\ lock' = 0
               /\ Install(conn[c].work)
          ELSE /\ conn' = [conn EXCEPT ![c] =
                     [@ EXCEPT !.work = one.db,
                               !.k = IF conn[c].k < Len(r.lines) THEN @ + 1 ELSE 0,
                               !.pc = IF conn[c].k < Len(r.lines) THEN "ship" ELSE "commit"]]
               /\ UNCHANGED <<lock, dbvars>>
    /\ UNCHANGED now

\* POST /api/shipments: one round of the second loop, inside the transaction.
RaceShip(c) ==
    /\ conn[c].pc = "ship"
    /\ LET r == conn[c].req
           one == ShipLine(conn[c].work, conn[c].row.shipment_id, conn[c].auth.orgId,
                           r.lines[conn[c].k])
       IN IF ~one.ok
          THEN /\ conn' = [conn EXCEPT ![c] = RolledBack(c)]
               /\ lock' = 0
          ELSE /\ conn' = [conn EXCEPT ![c] =
                     [@ EXCEPT !.work = one.db,
                               !.k = IF conn[c].k < Len(r.lines) THEN @ + 1 ELSE 0,
                               !.pc = IF conn[c].k < Len(r.lines) THEN "ship" ELSE "commit"]]
               /\ UNCHANGED lock
    /\ UNCHANGED <<dbvars, now>>

\* fetch_state inside the transaction, the answer, and db_conn()'s commit.
RaceCommit(c) ==
    /\ conn[c].pc = "commit"
    /\ Install(conn[c].work)
    /\ lock' = 0
    /\ conn' = [conn EXCEPT ![c] =
          Returned(c, ReplyBody(conn[c].work,
                                IF conn[c].req.op = "deleteProduct" THEN 200 ELSE 201,
                                IF conn[c].req.op = "deleteProduct" THEN "ok" ELSE "created",
                                fetch_state(conn[c].work, conn[c].auth.orgId)).resp)]
    /\ UNCHANGED now

\* The other connection holds the write lock until the busy timeout of
\* sqlite3.connect runs out: OperationalError, answered 500.
RaceBusy(c) ==
    /\ conn[c].pc \in {"post", "remove", "header"}
    /\ lock = Other(c)
    /\ conn' = [conn EXCEPT ![c] = RolledBack(c)]
    /\ UNCHANGED <<dbvars, now, lock>>

\* A step of the thread of connection c once it has its request.
RaceStep(c) ==
    \/ UndoAuthenticate(c)
    \/ Prepare(c)
    \/ Post(c)
    \/ Record(c)
    \/ Remove(c)
    \/ Sweep(c)
    \/ RaceCheck(c)
    \/ Header(c)
    \/ RaceShip(c)
    \/ RaceCommit(c)
    \/ RaceBusy(c)

NextRace == \E c \in Conns : RaceAccept(c) \/ RaceStep(c)

InitRace ==
    /\ products = InitProducts
    /\ receipts = InitReceipts
    /\ shipments = InitShipments
    /\ items = InitItems
    /\ memberships = InitMemberships
    /\ sessions = InitSessions
    /\ issued = [x \in {"p", "r", "s", "t"} |->
                    IF x = "p" THEN 2 ELSE IF x = "r" THEN 2 ELSE IF x = "s" THEN 1 ELSE 4]
    /\ now = SESSION_TTL_DAYS
    /\ conn = [c \in Conns |-> Idle]
    /\ lock = 0

SpecRace == InitRace /\ [][NextRace]_vars

\* The threads are scheduled fairly: a thread that has a request takes its
\* next step, and a wait for the write lock ends with the lock or, when the
\* busy timeout runs out, with OperationalError.
SpecRaceFair == SpecRace /\ \A c \in Conns : WF_vars(RaceStep(c))

\* ------------------------------------------------------------- SpecBook: a ledger from nothing
\* The store is empty, the products made so far were deleted again; the
\* owner of o1 creates a product, receives and ships stock, takes receipts
\* and shipments back and deletes the product.
BookIds == {Blank, MaxProducts}

BookLists == LinesIn(LineIn({MaxProducts}, {1, MaxQty}, {}), {1})

InitBook ==
    /\ products = {}
    /\ receipts = {}
    /\ shipments = {}
    /\ items = <<>>
    /\ memberships = InitMemberships
    /\ sessions = InitSessions
    /\ issued = [x \in {"p", "r", "s", "t"} |->
                    IF x = "t" THEN 4 ELSE IF x = "p" THEN MaxProducts - 1 ELSE 0]
    /\ now = SESSION_TTL_DAYS
    /\ conn = <<>>
    /\ lock = 0

BookCreateProduct == \E r \in Json(CreateProductReqs({Owner}, {"A"}, {1}, {0, MaxQty}, {1})) : Serve(r)
BookCreateReceipt == \E r \in Json(CreateReceiptReqs({Owner}, {1}, {0})) : r.id \in BookIds /\ Serve(r)
BookDeleteReceipt == \E r \in DeleteReceiptReqs({Owner}) : Serve(r)
BookCreateShipment == \E r \in Json(CreateShipmentReqs({Owner}, BookLists)) : Serve(r)
BookDeleteShipment == \E r \in DeleteShipmentReqs({Owner}) : Serve(r)
BookDeleteProduct == \E r \in DeleteProductReqs({Owner}) : Serve(r)

NextBook ==
    \/ BookCreateProduct
    \/ BookCreateReceipt
    \/ BookDeleteReceipt
    \/ BookCreateShipment
    \/ BookDeleteShipment
    \/ BookDeleteProduct

SpecBook == InitBook /\ [][NextBook]_vars

\* ------------------------------------------------------------- SpecPrice: prices and names
\* The owner of o1 changes the price and the name of products, receives
\* stock and ships it with or without a price on the line.
PriceLists == LinesIn(LineIn({1}, {1}, {3}), {1, MaxLines})

PriceUpdatePrice == \E r \in Wire(UpdatePriceReqs({Owner}, {0 - 1, 2})) : Serve(r)
PriceUpdateProduct == \E r \in Wire(UpdateProductReqs({Owner}, {"", "B"}, {3})) : Serve(r)
PriceCreateReceipt == \E r \in Json(CreateReceiptReqs({Owner}, {1}, {0})) : Serve(r)
PriceCreateShipment == \E r \in Json(CreateShipmentReqs({Owner}, PriceLists)) : Serve(r)

NextPrice ==
    \/ PriceUpdatePrice
    \/ PriceUpdateProduct
    \/ PriceCreateReceipt
    \/ PriceCreateShipment

SpecPrice == Init /\ [][NextPrice]_vars

\* ------------------------------------------------------------- SpecRoles: roles of every member
\* The sessions of both organizations change the role of any member, their
\* own included, read the state, and time passes.
RolesChange == \E r \in Wire(RoleReqs(Tokens, Users, RoleNames)) : Serve(r)
RolesListState == \E r \in StateReqs(Tokens) : Serve(r)

NextRoles ==
    \/ RolesChange
    \/ RolesListState
    \/ Tick

SpecRoles == Init /\ [][NextRoles]_vars

\* ------------------------------------------------------------- SpecOrder: the clock between requests
\* The owner of o1 makes a product, posts a receipt and ships, and the clock
\* moves between the requests.  Here the clock is read in Second-ths of a
\* second, not in days; the owner's session outlives every instant reached.
Day == 86400 * Second
OrderEnd == 2 * Second

InitOrder ==
    /\ products = InitProducts
    /\ receipts = InitReceipts
    /\ shipments = InitShipments
    /\ items = InitItems
    /\ memberships = InitMemberships
    /\ sessions = {[token |-> Owner, user_id |-> "u1", org_id |-> "o1",
                    expires_at |-> SESSION_TTL_DAYS * Day, created_at |-> 0]}
    /\ issued = [x \in {"p", "r", "s", "t"} |->
                    IF x = "p" THEN 2 ELSE IF x = "r" THEN 2 ELSE 1]
    /\ now = 1
    /\ conn = <<>>
    /\ lock = 0

OrderTick ==
    /\ now < OrderEnd
    /\ now' = now + 1
    /\ UNCHANGED <<dbvars, conn, lock>>

OrderCreateProduct ==
    \E r \in Json(CreateProductReqs({Owner}, {"B"}, {1}, {0, 1}, {1})) : Serve(r)
OrderCreateReceipt == \E r \in Json(CreateReceiptReqs({Owner}, {1}, {0})) : Serve(r)
OrderCreateShipment ==
    \E r \in Json(CreateShipmentReqs({Owner}, LinesIn(LineIn({1}, {1}, {}), {1, 2}))) : Serve(r)
OrderDeleteShipment == \E r \in DeleteShipmentReqs({Owner}) : Serve(r)
OrderListState == \E r \in StateReqs({Owner}) : Serve(r)

NextOrder ==
    \/ OrderTick
    \/ OrderCreateProduct
    \/ OrderCreateReceipt
    \/ OrderCreateShipment
    \/ OrderDeleteShipment
    \/ OrderListState

SpecOrder == InitOrder /\ [][NextOrder]_vars

\* ------------------------------------------------------------- what the claims speak of
\* The requests judged in every state reached: every route, every cookie, ids
\* of both organizations and of none, well-formed and malformed payloads.
\* Item lists of no line, of one line, and of a good line followed by any
\* line: a product of either organization, no product, a blank id, quantity 0.
JudgedLines == LineIn(0..MaxProducts, {1}, {}) \cup LineIn({1}, {0}, {})
JudgedLists ==
    LinesIn(JudgedLines, {0, 1})
    \cup {<<first, second>> : first \in LineIn({1, 2}, {1}, {}), second \in JudgedLines}

LedgerReqs ==
    CreateProductReqs(TokenIn, {"", "B"}, {2}, {0, 1}, {1})
    \cup UpdatePriceReqs(TokenIn, {2})
    \cup UpdateProductReqs(TokenIn, {"", "B"}, {2})
    \cup DeleteProductReqs(TokenIn)
    \cup CreateReceiptReqs(TokenIn, {0, 1}, {0})
    \cup DeleteReceiptReqs(TokenIn)
    \cup CreateShipmentReqs(TokenIn, JudgedLists)
    \cup DeleteShipmentReqs(TokenIn)

EmailIn == Users \cup {"", "nobody"}
RoleIn == RoleNames \cup {"admin"}

JudgedReqs ==
    Wire(StateReqs(TokenIn) \cup PrintReqs(TokenIn) \cup RoleReqs(TokenIn, EmailIn, RoleIn)
         \cup LedgerReqs)

Mutating ==
    {"createProduct", "updatePrice", "updateProduct", "deleteProduct", "createReceipt",
     "deleteReceipt", "createShipment", "deleteShipment"}

\* The session row of a cookie and the membership it is bound to, read from the
\* tables.
SessionOf(tok) == CHOOSE x \in sessions : x.token = tok

HasSession(tok) == \E x \in sessions : x.token = tok

MembershipOf(tok) ==
    CHOOSE m \in memberships :
        m.user_id = SessionOf(tok).user_id /\ m.org_id = SessionOf(tok).org_id

Resolvable(tok, t) ==
    /\ HasSession(tok)
    /\ t < SessionOf(tok).expires_at
    /\ \E m \in memberships :
          m.user_id = SessionOf(tok).user_id /\ m.org_id = SessionOf(tok).org_id

\* The rows a database holds for one organization.
OrgRows(d, o) ==
    [products |-> {x \in d.products : x.org_id = o},
     receipts |-> {x \in d.receipts : x.org_id = o},
     shipments |-> {x \in d.shipments : x.org_id = o},
     items |-> SelectSeq(d.items, LAMBDA i : i.org_id = o),
     memberships |-> {x \in d.memberships : x.org_id = o}]

\* A response body names only rows of organization o.
BodyWithin(body, d, o) ==
    LET mine == OrgRows(d, o)
        pids == {x.id : x \in mine.products}
    IN /\ \A x \in body.products : x.id \in pids
       /\ \A x \in body.receipts :
             /\ x.id \in {y.id : y \in mine.receipts}
             /\ x.productId \in pids
       /\ \A x \in body.shipments :
             /\ x.id \in {y.id : y \in mine.shipments}
             /\ \A k \in DOMAIN x.items : x.items[k].productId \in pids

\* C3: a request sent with a session bound to one organization leaves the
\* products, receipts, shipments, shipment items and memberships of every other
\* organization as they were, whatever ids it names, and the snapshot (or the
\* printed document) it returns holds rows of the session's organization only.
C3_TenantIsolation ==
    \A r \in JudgedReqs :
        HasSession(r.token) =>
            LET out == route(DB, now, r)
                mine == SessionOf(r.token).org_id
            IN /\ out.db # DB => \A o \in Orgs \ {mine} : OrgRows(out.db, o) = OrgRows(DB, o)
               /\ out.resp.hasBody => BodyWithin(out.resp.body, out.db, mine)

\* C3 witness: both organizations hold a product and a shipment, and a writer
\* of o1 naming the shipment and the product of o2 is told NotFound.
C3_Witness ==
    /\ \E x \in shipments : x.org_id = "o1"
    /\ \E x \in shipments, y \in products :
          /\ x.org_id = "o2" /\ y.org_id = "o2"
          /\ route(DB, now, [NoReq EXCEPT !.op = "deleteShipment", !.token = 1,
                                          !.id = x.id]).resp.kind = "NotFound"
          /\ route(DB, now, [NoReq EXCEPT !.op = "deleteProduct", !.token = 1,
                                          !.id = y.id]).resp.kind = "NotFound"

Sufficient(role, op) ==
    \/ op \in {"state", "print"}
    \/ op = "role" /\ role = "owner"
    \/ op \in Mutating /\ role \in {"owner", "manager"}

\* C4: a viewer's mutating request and role change are answered Forbidden and
\* change nothing; a manager's role change is answered Forbidden; a role
\* change that succeeds or changes a membership comes from an owner, and an
\* owner's well-formed change of a member of the organization succeeds; every
\* role reads the state.
C4_RoleEnforcement ==
    \A r \in JudgedReqs :
        Resolvable(r.token, now) =>
            LET out == route(DB, now, r)
                role == MembershipOf(r.token).role
                mine == SessionOf(r.token).org_id
            IN /\ (role = "viewer" /\ r.op \in Mutating \cup {"role"})
                     => (out.resp.kind = "Forbidden" /\ out.db = DB)
               /\ (role = "manager" /\ r.op = "role")
                     => (out.resp.kind = "Forbidden" /\ out.db = DB)
               /\ (r.op = "role" /\ (out.resp.kind = "ok" \/ out.db # DB))
                     => role = "owner"
               /\ (/\ r.op = "role" /\ role = "owner" /\ r.payload = "json"
                   /\ r.role \in RoleNames
                   /\ \E m \in memberships : m.user_id = r.email /\ m.org_id = mine)
                     => (/\ out.resp.kind = "ok"
                         /\ \E m \in out.db.memberships :
                               m.user_id = r.email /\ m.org_id = mine /\ m.role = r.role)
               /\ r.op = "state" => (out.resp.kind = "ok" /\ out.resp.hasBody)

\* C4 witness: a live session whose member is now a viewer, whose shipment
\* request is answered Forbidden.
C4_Witness ==
    \E r \in CreateShipmentReqs(TokenIn, LinesIn(LineIn({1}, {1}, {}), {1})) :
        /\ r.payload = "json"
        /\ Resolvable(r.token, now)
        /\ MembershipOf(r.token).role = "viewer"
        /\ route(DB, now, r).resp.kind = "Forbidden"
        /\ \E q \in RoleReqs({1}, {"u2"}, {"manager"}) : route(DB, now, q).resp.kind = "ok"

\* C9: without a resolvable session every request is answered Unauthenticated
\* (401); with one but without the role the route needs it is answered
\* Forbidden (403), whatever the payload and the ids; ValidationError, NotFound
\* and InsufficientStock go to resolved sessions with a sufficient role only.
C9_GatePrecedence ==
    \A r \in JudgedReqs :
        LET out == route(DB, now, r)
            live == Resolvable(r.token, now)
            enough == live /\ Sufficient(MembershipOf(r.token).role, r.op)
        IN /\ ~live => (out.resp.kind = "Unauthenticated" /\ out.resp.status = 401)
           /\ (live /\ ~enough) => (out.resp.kind = "Forbidden" /\ out.resp.status = 403)
           /\ out.resp.kind \in {"ValidationError", "NotFound", "InsufficientStock"}
                 => enough

\* C9 witness: the table holds a session whose expiry has come, and a viewer is
\* live: a malformed receipt is answered Unauthenticated to the one, Forbidden
\* to the other, and ValidationError to the owner.
C9_Witness ==
    \E a, b, c \in CreateReceiptReqs(TokenIn, {0}, {0}) :
        /\ a.payload = "garbled" /\ b.payload = "garbled" /\ c.payload = "garbled"
        /\ HasSession(a.token) /\ ~Resolvable(a.token, now)
        /\ route(DB, now, a).resp.kind = "Unauthenticated"
        /\ Resolvable(b.token, now) /\ MembershipOf(b.token).role = "viewer"
        /\ route(DB, now, b).resp.kind = "Forbidden"
        /\ Resolvable(c.token, now) /\ MembershipOf(c.token).role = "owner"
        /\ route(DB, now, c).resp.kind = "ValidationError"

\* C1: every product's stock is at least 0 in every state the ledger reaches
\* by createProduct, createReceipt, deleteReceipt, createShipment,
\* deleteShipment and deleteProduct requests served one at a time, for every
\* accepted input, item lists with several lines for one product included.
C1_StockNonNegative == \A p \in products : p.stock >= 0

\* C6: whenever createShipment succeeds for an item list (of one line, of two
\* lines, of up to MaxLines lines repeating one), a deleteShipment of
\* the new shipment served next succeeds, leaves every product's stock at its
\* value before the createShipment, and removes the shipment and all its items.
C6_Lines == LineIn({1, 3}, 1..MaxQty, {})
C6_Lists ==
    LinesIn(C6_Lines, {1, 2})
    \cup {[k \in 1..n |-> line] : n \in 1..MaxLines, line \in C6_Lines}

Delete(tok, sid) == [NoReq EXCEPT !.op = "deleteShipment", !.token = tok, !.id = sid]

C6_RoundTrip ==
    \A r \in Json(CreateShipmentReqs({Owner}, C6_Lists)) :
        LET made == route(DB, now, r)
            sid == make_id(DB, "s")
            undone == route(made.db, now, Delete(r.token, sid))
        IN made.resp.status = 201 =>
              /\ \E s \in made.db.shipments : s.id = sid
              /\ undone.resp.status = 200
              /\ {[id |-> p.id, stock |-> p.stock] : p \in undone.db.products}
                    = {[id |-> p.id, stock |-> p.stock] : p \in products}
              /\ \A s \in undone.db.shipments : s.id # sid
              /\ \A k \in DOMAIN undone.db.items : undone.db.items[k].shipment_id # sid

\* A ledger that has moved, and a list of two lines of different quantities
\* on one product that it accepts.
C6_Witness ==
    /\ Cardinality(receipts) > Cardinality(InitReceipts)
    /\ \E r \in Json(CreateShipmentReqs({Owner}, C6_Lists)) :
          /\ route(DB, now, r).resp.status = 201
          /\ Len(r.lines) = 2
          /\ r.lines[1].productId = r.lines[2].productId
          /\ r.lines[1].quantity > 1
          /\ route(route(DB, now, r).db, now, Delete(Owner, make_id(DB, "s"))).resp.status = 200

\* C10: createProduct with initial stock s and purchase price c: the new
\* product is in the resulting state with stock max(0, s); when s > 0 exactly
\* one receipt names it, of quantity s and cost max(0, c); when s <= 0 no
\* receipt names it.
C10_Reqs == Json(CreateProductReqs({Owner, 3}, {"B"}, {1}, LedgerStocks, LedgerCosts))

C10_InitialStock ==
    \A r \in C10_Reqs :
        LET out == route(DB, now, r)
            pid == make_id(DB, "p")
            made == {p \in out.db.products : p.id = pid}
            recs == {x \in out.db.receipts : x.product_id = pid}
        IN out.resp.status = 201 =>
              /\ \A p \in products : p.id # pid
              /\ Cardinality(made) = 1
              /\ \A p \in made : p.stock = Max0(r.stock)
              /\ r.stock > 0 =>
                    /\ Cardinality(recs) = 1
                    /\ \A x \in recs : x.quantity = r.stock /\ x.cost = Max0(r.purchasePrice)
                    /\ \A p \in made : p.stock = r.stock
              /\ r.stock <= 0 => recs = {}

\* A product made by createProduct stands in the ledger with its receipt,
\* another without one, and both kinds of request are accepted again.
C10_Witness ==
    /\ \E p \in products :
          /\ p.id > Cardinality(InitProducts)
          /\ p.stock > 0
          /\ \E x \in receipts : x.product_id = p.id /\ x.quantity = p.stock
    /\ \E r \in C10_Reqs : r.stock > 0 /\ route(DB, now, r).resp.status = 201
    /\ \E r \in C10_Reqs : r.stock <= 0 /\ route(DB, now, r).resp.status = 201

\* C7: resolving a session token at an instant t >= expires_at reports
\* Unauthenticated and deletes the session row, every later resolve of the token
\* reports Unauthenticated too, and no later request brings the token back;
\* resolving at t < expires_at succeeds and leaves the sessions as they were.
Instants == 0..(MaxTime + SESSION_TTL_DAYS)

C7_Resolve ==
    \A s \in sessions : \A t \in Instants :
        LET got == get_current_auth(DB, t, s.token)
            seen == route(DB, t, [NoReq EXCEPT !.op = "state", !.token = s.token])
        IN IF t >= s.expires_at
           THEN /\ ~got.auth.ok
                /\ \A x \in got.db.sessions : x.token # s.token
                /\ seen.resp.status = 401
                /\ seen.db = got.db
                /\ \A u \in Instants : ~get_current_auth(got.db, u, s.token).auth.ok
           ELSE /\ got.auth.ok
                /\ got.auth.token = s.token
                /\ got.db = DB
                /\ seen.resp.status = 200

C7_Gone ==
    \A tok \in 1..issued["t"] : ~HasSession(tok) => ~HasSession(tok)'

C7_SessionExpiry == []C7_Resolve /\ [][C7_Gone]_vars

\* A session whose expiry has come and is still on record, a live one next to
\* it, and a token already deleted.
C7_Witness ==
    /\ \E s \in sessions : s.expires_at = now
    /\ \E s \in sessions : now < s.expires_at
    /\ \E tok \in 1..issued["t"] : ~HasSession(tok)

\* C8: once an owner's role change for a member of the organization is
\* committed, every request sent next with a session of that member bound to
\* the organization, while the session lasts, is resolved with the new role:
\* refused as Forbidden exactly when the new role does not allow the
\* operation.
C8_Changes == Json(RoleReqs(TokenIn, Users, RoleNames))
C8_Next ==
    Json(UpdatePriceReqs(TokenIn, {2}) \cup CreateReceiptReqs(TokenIn, {1}, {0})
         \cup CreateShipmentReqs(TokenIn, LinesIn(LineIn({1}, {1}, {}), {1}))
         \cup RoleReqs(TokenIn, {"u1"}, {"owner"}))
    \cup DeleteProductReqs(TokenIn) \cup StateReqs(TokenIn)

C8_RoleChange ==
    \A r \in C8_Changes :
        LET out == route(DB, now, r) IN
        out.resp.status = 200 =>
            \A s \in out.db.sessions : \A t \in {now, now + TickStep} :
                (s.user_id = r.email /\ s.org_id = SessionOf(r.token).org_id
                    /\ t < s.expires_at) =>
                    /\ get_current_auth(out.db, t, s.token).auth.ok
                    /\ get_current_auth(out.db, t, s.token).auth.role = r.role
                    /\ \A q \in C8_Next : q.token = s.token =>
                          LET nxt == route(out.db, t, q) IN
                          /\ nxt.resp.status # 401
                          /\ nxt.resp.status = 403 <=> ~Sufficient(r.role, q.op)

\* A manager demoted to viewer earlier holds a live session, and the owner's
\* request promoting the member again is accepted.
C8_Witness ==
    /\ \E m \in memberships : m.user_id = "u2" /\ m.org_id = "o1" /\ m.role = "viewer"
    /\ \E s \in sessions : s.user_id = "u2" /\ s.org_id = "o1" /\ now < s.expires_at
    /\ \E r \in C8_Changes :
          /\ r.email = "u2"
          /\ r.role = "manager"
          /\ route(DB, now, r).resp.status = 200

\* C2: two createShipment requests of one line each for the same product are
\* served at once, each on its own connection; the quantities add up to more
\* than the product's stock and neither does alone.  When both are answered,
\* exactly one of them has succeeded (the other is refused) and the product's
\* stock is not negative.
StockAtStart(pid) == (CHOOSE p \in InitProducts : p.id = pid).stock

C2_Contend(pid) ==
    /\ \A c \in Conns :
          /\ conn[c].pc = "done"
          /\ conn[c].overlap
          /\ conn[c].req.op = "createShipment"
          /\ conn[c].auth.ok
          /\ Len(conn[c].req.lines) = 1
          /\ conn[c].req.lines[1].productId = pid
          /\ conn[c].req.lines[1].quantity <= StockAtStart(pid)
    /\ conn[1].req.lines[1].quantity + conn[2].req.lines[1].quantity > StockAtStart(pid)

C2_ExactlyOneSucceeds ==
    \A pid \in {p.id : p \in InitProducts} :
        C2_Contend(pid) =>
            /\ Cardinality({c \in Conns : conn[c].resp.kind = "created"}) = 1
            /\ \A p \in products : p.id = pid => p.stock >= 0

\* C5: no partial shipment is observable.  In every committed state, and in
\* every snapshot a listState returns, also one read while a createShipment is
\* under way, a shipment made by a request holds one item for each line of the
\* request, and every product's stock is its stock at the start less the
\* quantities of the items shown for it.
RECURSIVE QtyIn(_, _, _)
QtyIn(rows, pid, k) ==
    IF k > Len(rows) THEN 0
    ELSE (IF rows[k].productId = pid THEN rows[k].quantity ELSE 0) + QtyIn(rows, pid, k + 1)

RECURSIVE Shipped(_, _)
Shipped(shs, pid) ==
    IF shs = {} THEN 0
    ELSE LET sh == CHOOSE x \in shs : TRUE IN
         QtyIn(sh.items, pid, 1) + Shipped(shs \ {sh}, pid)

Whole(body) ==
    /\ \A sh \in body.shipments : \A c \in Conns :
          (conn[c].sid = sh.id /\ conn[c].req.op = "createShipment") =>
              /\ Len(sh.items) = Len(conn[c].req.lines)
              /\ \A k \in DOMAIN sh.items :
                    /\ sh.items[k].productId = conn[c].req.lines[k].productId
                    /\ sh.items[k].quantity = conn[c].req.lines[k].quantity
    /\ \A p \in body.products :
          p.stock = StockAtStart(p.id) - Shipped(body.shipments, p.id)

C5_NoPartialShipment ==
    /\ Whole(fetch_state(DB, "o1"))
    /\ \A c \in Conns :
          (conn[c].pc = "done" /\ conn[c].req.op = "state" /\ conn[c].resp.status = 200) =>
              Whole(conn[c].resp.body)

\* C11: createReceipt accepted for a product, a quantity q > 0 and a cost c
\* adds exactly q to that product's stock and writes exactly one new receipt
\* of (q, max(0, c)); the purchase price becomes c when c > 0 and stays as it
\* was when c = 0 or c < 0; no other product and no other receipt changes.
C11_Reqs == Json(CreateReceiptReqs({Owner, 3}, {1, MaxQty}, LedgerCosts))

C11_ReceiptPosting ==
    \A r \in C11_Reqs :
        LET out == route(DB, now, r)
            rid == make_id(DB, "r")
            old == {p \in products : p.id = r.id}
            new == {p \in out.db.products : p.id = r.id}
            added == out.db.receipts \ receipts
        IN out.resp.status = 201 =>
              /\ Cardinality(old) = 1 /\ Cardinality(new) = 1
              /\ \A p \in old : \A q \in new :
                    /\ q.stock = p.stock + r.quantity
                    /\ r.cost > 0 => q.purchase_price = r.cost
                    /\ r.cost <= 0 => q.purchase_price = p.purchase_price
                    /\ q = [p EXCEPT !.stock = q.stock, !.purchase_price = q.purchase_price]
              /\ out.db.products \ new = products \ old
              /\ receipts \subseteq out.db.receipts
              /\ Cardinality(added) = 1
              /\ \A x \in added :
                    /\ x.id = rid /\ x.product_id = r.id
                    /\ x.quantity = r.quantity /\ x.cost = Max0(r.cost)
              /\ out.db.shipments = shipments /\ out.db.items = items

\* A receipt was written since the start, and receipts of a positive cost, of
\* cost 0 and of a negative cost are accepted for a product whose purchase
\* price is neither.
C11_Witness ==
    /\ \E x \in receipts : x.id > Cardinality(InitReceipts)
    /\ \E p \in products :
          /\ p.purchase_price > 0
          /\ \A c \in LedgerCosts :
                \E r \in C11_Reqs :
                    /\ r.id = p.id /\ r.cost = c /\ r.cost # p.purchase_price
                    /\ route(DB, now, r).resp.status = 201

\* C12: after a successful deleteProduct the product, every receipt naming it
\* and every shipment item naming it are gone; the caller's organization has
\* no shipment without items; a shipment whose items all named the product is
\* removed; a shipment with an item of another product is kept with exactly
\* those items, in their order; nothing else of the ledger changes.
C12_Lists == LinesIn(LineIn({1, 3}, {1}, {}), {2})

\* The state reached, and the states one accepted shipment of two lines later.
C12_States ==
    {DB} \cup {route(DB, now, c).db : c \in Json(CreateShipmentReqs({Owner}, C12_Lists))}

C12_After(d, e, o, pid) ==
    /\ \A p \in e.products : p.id # pid
    /\ \A x \in e.receipts : x.product_id # pid
    /\ \A k \in DOMAIN e.items : e.items[k].product_id # pid
    /\ \A s \in e.shipments : s.org_id = o => Len(ItemsOf(e, s.id)) > 0
    /\ \A s \in d.shipments :
          s.org_id = o =>
             LET rows == ItemsOf(d, s.id)
                 kept == SelectSeq(rows, LAMBDA i : i.product_id # pid)
             IN /\ Len(kept) = 0 => s \notin e.shipments
                /\ Len(kept) > 0 => s \in e.shipments /\ ItemsOf(e, s.id) = kept
    /\ e.shipments \subseteq d.shipments
    /\ \A s \in d.shipments : s.org_id # o => s \in e.shipments
    /\ e.products = {p \in d.products : p.id # pid}
    /\ e.receipts = {x \in d.receipts : x.product_id # pid}
    /\ e.memberships = d.memberships

C12_ProductCascade ==
    \A d \in C12_States :
        \A r \in DeleteProductReqs({Owner, 3}) :
            LET out == route(d, now, r) IN
            out.resp.status = 200 =>
               /\ \E p \in d.products : p.id = r.id /\ p.org_id = SessionOf(r.token).org_id
               /\ C12_After(d, out.db, SessionOf(r.token).org_id, r.id)

\* A ledger holding a shipment of the first product alone and, one request
\* later, a shipment of two products: the first product is deleted.
C12_Witness ==
    \E d \in C12_States :
        /\ \E s \in d.shipments :
              /\ Len(ItemsOf(d, s.id)) > 0
              /\ \A k \in DOMAIN ItemsOf(d, s.id) : ItemsOf(d, s.id)[k].product_id = 1
        /\ \E s \in d.shipments :
              \E j, k \in DOMAIN ItemsOf(d, s.id) :
                 ItemsOf(d, s.id)[j].product_id = 1 /\ ItemsOf(d, s.id)[k].product_id = 3
        /\ \E x \in d.receipts : x.product_id = 1
        /\ route(d, now, [NoReq EXCEPT !.op = "deleteProduct", !.token = Owner, !.id = 1]).resp.status
              = 200

\* C13: logout is idempotent.  For every cookie (none, a live session, an
\* expired one, one already revoked, a token never issued) the request is
\* answered 200; afterwards exactly the sessions of other tokens remain, each
\* as it was, and no other table has changed; the same logout sent again, at
\* once or later, is answered 200 and changes nothing.
C13_Later == {now, now + TickStep}

C13_RevokeIdempotent ==
    \A r \in LogoutReqs(TokenIn) :
        LET once == route(DB, now, r) IN
        /\ once.resp.status = 200
        /\ once.db.sessions = {s \in sessions : s.token # r.token}
        /\ [once.db EXCEPT !.sessions = sessions] = DB
        /\ \A t \in C13_Later :
              LET twice == route(once.db, t, r) IN
              twice.resp.status = 200 /\ twice.db = once.db

\* A token was revoked or has run out and its row is gone; a live session, an
\* expired session still stored, and a second session of a user who has one
\* are there to be revoked.
C13_Witness ==
    /\ \E tok \in 1..issued["t"] : ~HasSession(tok)
    /\ \E s \in sessions : now < s.expires_at
    /\ \E s \in sessions : s.expires_at <= now
    /\ \E s, u \in sessions : s.token # u.token /\ s.user_id = u.user_id /\ now < s.expires_at

\* C14: deleteReceipt accepted for a receipt of quantity q sets the stock of
\* the receipt's product to max(0, stock - q), removes that receipt and no
\* other, and changes no other product, receipt, shipment or shipment item,
\* whichever receipt it is and whatever the stock (below q and below 0
\* included).
C14_ReceiptReversal ==
    \A r \in DeleteReceiptReqs({Owner, 3}) :
        LET out == route(DB, now, r)
            gone == {x \in receipts : x.id = r.id}
        IN out.resp.status = 200 =>
              /\ Cardinality(gone) = 1
              /\ \A x \in gone :
                    /\ x.org_id = SessionOf(r.token).org_id
                    /\ \E p \in products :
                          /\ p.id = x.product_id
                          /\ out.db.products =
                                (products \ {p})
                                \cup {[p EXCEPT !.stock = Max0(p.stock - x.quantity)]}
              /\ out.db.receipts = receipts \ gone
              /\ out.db.shipments = shipments /\ out.db.items = items

\* The receipt of a product made later stands against a stock that has since
\* fallen below the receipt's quantity, beside a receipt of another product;
\* its deletion by the owner of o2 is accepted.
C14_Witness ==
    \E x \in receipts :
        /\ x.id > Cardinality(InitReceipts)
        /\ \E p \in products : p.id = x.product_id /\ p.stock < x.quantity
        /\ \E y \in receipts : y.product_id # x.product_id
        /\ route(DB, now, [NoReq EXCEPT !.op = "deleteReceipt", !.token = 3, !.id = x.id]).resp.status
              = 200

\* C15: deleteShipment of a shipment of the caller's organization, after
\* whatever happened since it was made (receipts, other shipments, the
\* deletion of one of its products), is accepted, adds the quantity of each
\* item the shipment still has to the stock of that item's product, leaves the
\* set of products as it is (a deleted product is not made again), removes the
\* shipment and all its items and changes nothing else; deleteShipment of an id
\* that is no shipment of the caller's organization is answered NotFound and
\* changes nothing.
C15_Reqs ==
    {[NoReq EXCEPT !.op = "deleteShipment", !.token = tok, !.id = id]
     : tok \in {Owner, 3}, id \in 0..(MaxShipments + 1)}

\* The state reached, the states one accepted shipment of two products later,
\* and those with one of the two products deleted after that.
C15_States ==
    {route(d, now, x).db :
        d \in C12_States, x \in {r \in DeleteProductReqs({Owner}) : r.id \in {Blank, 1, 3}}}

RECURSIVE C15_Returned(_, _, _)
C15_Returned(rows, pid, k) ==
    IF k > Len(rows) THEN 0
    ELSE (IF rows[k].product_id = pid THEN rows[k].quantity ELSE 0)
         + C15_Returned(rows, pid, k + 1)

C15_ShipmentUndo ==
    \A d \in C15_States :
        \A r \in C15_Reqs :
            LET out == route(d, now, r)
                o == SessionOf(r.token).org_id
                found == {s \in d.shipments : s.id = r.id /\ s.org_id = o}
                rows == ItemsOf(d, r.id)
            IN /\ found = {} => out.resp.status = 404 /\ out.db = d
               /\ found # {} =>
                     /\ out.resp.status = 200
                     /\ out.db.products =
                           {[p EXCEPT !.stock = @ + C15_Returned(rows, p.id, 1)]
                            : p \in d.products}
                     /\ out.db.shipments = d.shipments \ found
                     /\ out.db.items = SelectSeq(d.items, LAMBDA i : i.shipment_id # r.id)
                     /\ out.db.receipts = d.receipts
                     /\ out.db.memberships = d.memberships

\* A shipment of two products, one of which was deleted after it was made, is
\* taken back beside an older shipment, and an id of the other organization
\* is refused.
C15_Witness ==
    /\ Cardinality(shipments) > Cardinality(InitShipments)
    /\ \E d \in C15_States :
          /\ Cardinality(d.products) < Cardinality(products)
          /\ \E s \in d.shipments :
                /\ s.org_id = "o1"
                /\ \A t \in shipments : t.id # s.id
                /\ Len(ItemsOf(d, s.id)) = 1
                /\ route(d, now, [NoReq EXCEPT !.op = "deleteShipment", !.token = Owner,
                                                !.id = s.id]).resp.status = 200
          /\ \E s \in d.shipments :
                /\ s.org_id = "o2"
                /\ route(d, now, [NoReq EXCEPT !.op = "deleteShipment", !.token = Owner,
                                                !.id = s.id]).resp.status = 404

\* C16: a request answered 400 (ValidationError, InsufficientStock), 403
\* (Forbidden) or 404 (NotFound) leaves the products, receipts, shipments,
\* shipment items and memberships exactly as they were before it.
Refusals == {400, 403, 404}

Ledger(d) ==
    [products |-> d.products, receipts |-> d.receipts, shipments |-> d.shipments,
     items |-> d.items, memberships |-> d.memberships]

C16_UnchangedOnError ==
    \A r \in JudgedReqs :
        LET out == route(DB, now, r) IN
        out.resp.status \in Refusals => Ledger(out.db) = Ledger(DB)

\* The ledger has moved and a role was changed; a shipment is refused for its
\* second line after a first line that could be shipped, once for stock and
\* once for a product of the other organization; a member who may not write
\* is refused, and so is a payload that does not parse.
C16_Witness ==
    /\ products # InitProducts /\ memberships # InitMemberships
    /\ \E r \in JudgedReqs :
          /\ r.op = "createShipment" /\ Len(r.lines) = 2
          /\ route(DB, now, r).resp.kind = "InsufficientStock"
          /\ route(DB, now, [r EXCEPT !.lines = <<r.lines[1]>>]).resp.status = 201
    /\ \E r \in JudgedReqs :
          /\ r.op = "createShipment" /\ Len(r.lines) = 2
          /\ route(DB, now, r).resp.kind = "NotFound"
          /\ route(DB, now, [r EXCEPT !.lines = <<r.lines[1]>>]).resp.status = 201
    /\ \E r \in JudgedReqs : r.op \in Mutating /\ route(DB, now, r).resp.kind = "Forbidden"
    /\ \E r \in JudgedReqs :
          r.payload = "garbled" /\ route(DB, now, r).resp.kind = "ValidationError"

\* C17: no existence leak.  A request of any cookie naming a product, a
\* receipt or a shipment that exists but not in the caller's organization is
\* answered exactly as the same request naming an id that exists nowhere, and
\* leaves the same database; a member allowed the operation is answered 404
\* (or, for a shipment whose earlier line lacks stock, the refusal of that
\* line), and nothing is ever accepted.
\* The requests, with the id left open: in the path, or in one line of a list.
C17_Lists ==
    {ls \in LinesIn(LineIn({Blank, 1, 2}, {1}, {}), {1, 2}) :
        \E k \in DOMAIN ls : ls[k].productId = Blank}

C17_Templates ==
    {r \in Wire(UpdatePriceReqs(TokenIn, {2}) \cup UpdateProductReqs(TokenIn, {"B"}, {2})
                \cup DeleteProductReqs(TokenIn) \cup CreateReceiptReqs(TokenIn, {1}, {0})
                \cup DeleteReceiptReqs(TokenIn) \cup DeleteShipmentReqs(TokenIn)
                \cup PrintReqs(TokenIn))
     : r.id = Blank}
    \cup Wire(CreateShipmentReqs(TokenIn, C17_Lists))

Naming(r, id) ==
    IF r.op = "createShipment"
    THEN [r EXCEPT !.lines = [k \in DOMAIN @ |->
                                 IF @[k].productId = Blank
                                 THEN [@[k] EXCEPT !.productId = id] ELSE @[k]]]
    ELSE [r EXCEPT !.id = id]

\* The rows of the table a request's id is looked up in.
TableOf(r) ==
    IF r.op \in {"deleteShipment", "print"} THEN shipments
    ELSE IF r.op = "deleteReceipt" THEN receipts
    ELSE products

OrgOf(tok) == IF HasSession(tok) THEN SessionOf(tok).org_id ELSE "none"

Elsewhere(r) == {x.id : x \in {y \in TableOf(r) : y.org_id # OrgOf(r.token)}}

Nowhere(r) == (1..(Cardinality(TableOf(r)) + 1)) \ {x.id : x \in TableOf(r)}

Allowed(r) ==
    /\ r.payload = "json"
    /\ Resolvable(r.token, now)
    /\ r.op = "print" \/ MembershipOf(r.token).role \in Writers

C17_NoExistenceLeak ==
    \A r \in C17_Templates :
        \A x \in Elsewhere(r) : \A y \in Nowhere(r) :
            LET there == route(DB, now, Naming(r, x))
                none == route(DB, now, Naming(r, y))
            IN /\ there.resp = none.resp
               /\ there.db = none.db
               /\ there.resp.status \in Refusals \cup {401}
               /\ Allowed(r) =>
                     \/ there.resp.status = 404 /\ there.db = DB
                     \/ r.op = "createShipment" /\ there.resp.kind = "InsufficientStock"

\* After the ledger has moved: a writer of o1 names the shipment, a receipt
\* and a product of o2 and is answered 404, and a list whose second line names
\* a product of o2 after a line that can be shipped is answered 404.
C17_Witness ==
    /\ products # InitProducts
    /\ \A op \in {"deleteShipment", "deleteReceipt", "updatePrice", "createReceipt", "print"} :
          \E r \in C17_Templates :
              /\ r.op = op /\ r.token = Owner /\ Allowed(r)
              /\ \E x \in Elsewhere(r) : route(DB, now, Naming(r, x)).resp.status = 404
    /\ \E r \in C17_Templates :
          /\ r.op = "createShipment" /\ r.token = Owner /\ Allowed(r) /\ Len(r.lines) = 2
          /\ r.lines[1].productId = 1
          /\ \E x \in Elsewhere(r) : route(DB, now, Naming(r, x)).resp.status = 404

\* C18: every failure is reported with a kind a program can test, and the
\* kinds reported for Unauthenticated, Forbidden, ValidationError, NotFound,
\* InsufficientStock and InternalFailure differ pairwise: two requests refused
\* for reasons of different classes are answered with different reported
\* kinds, a shipment refused for stock and one refused for a malformed line in
\* particular.
\* What _send_json sends of a failure for a program to test: the status line.
\* The body is {"error": <message>} and holds no other field.
ReportedKind(resp) == resp.status

Failed(resp) == resp.status >= 400

C18_Reqs ==
    Wire(CreateShipmentReqs(TokenIn, JudgedLists))
    \cup StateReqs(TokenIn) \cup DeleteShipmentReqs(TokenIn)

C18_KindsDistinct ==
    \A a, b \in C18_Reqs :
        LET ra == route(DB, now, a).resp
            rb == route(DB, now, b).resp
        IN (Failed(ra) /\ Failed(rb) /\ ra.kind # rb.kind)
              => ReportedKind(ra) # ReportedKind(rb)

\* C19: listState returns the products, the receipts and the shipments of the
\* caller's organization newest first: of two rows created at different
\* readings of the clock, however close, the one created later comes first;
\* the items of a shipment come in the order they were inserted.
Listed(ls) ==
    \A i, j \in DOMAIN ls :
        (i < j /\ ls[i].created_at # ls[j].created_at) => ls[i].created_at > ls[j].created_at

C19_NewestFirst ==
    \A r \in StateReqs({Owner}) :
        LET out == route(DB, now, r)
            o == SessionOf(r.token).org_id
            lists == fetch_order(out.db, o)
        IN out.resp.status = 200 =>
              /\ \A ls \in lists :
                    Listed(ls.products) /\ Listed(ls.receipts) /\ Listed(ls.shipments)
              /\ \A sh \in out.resp.body.shipments :
                    sh.items = [k \in DOMAIN ItemsOf(DB, sh.id) |->
                                   [productId |-> ItemsOf(DB, sh.id)[k].product_id,
                                    quantity |-> ItemsOf(DB, sh.id)[k].quantity,
                                    price |-> ItemsOf(DB, sh.id)[k].price,
                                    amount |-> ItemsOf(DB, sh.id)[k].amount]]

\* C20: two deleteShipment requests for one shipment, or two deleteReceipt
\* requests for one receipt, served at once, in whatever order their steps
\* fall: the stock is adjusted once (the database is left as one of them alone
\* would leave it) and the two are not both answered 200.
SameTarget ==
    /\ \A c \in Conns : conn[c].pc = "done"
    /\ conn[1].req = conn[2].req
    /\ route(UndoStart, now, conn[1].req).resp.status = 200

C20_DeletedOnce ==
    SameTarget =>
       /\ \E c \in Conns : conn[c].resp.status # 200
       /\ (\E c \in Conns : conn[c].resp.status = 200)
             => Ledger(DB) = Ledger(route(UndoStart, now, conn[1].req).db)

\* C21: no lost update of stock.  When two createReceipt requests for one
\* product, of quantities q1 and q2, are served at once and both are answered
\* 201, in whatever order their steps fall, the product's stock is its stock
\* at the start + q1 + q2 and a receipt of each request is recorded.
BothPosted ==
    /\ \A c \in Conns :
          /\ conn[c].pc = "done"
          /\ conn[c].req.op = "createReceipt"
          /\ conn[c].resp.status = 201
    /\ conn[1].req.id = conn[2].req.id

C21_NoLostUpdate ==
    BothPosted =>
       LET pid == conn[1].req.id
           new == {x \in receipts : x \notin InitReceipts}
       IN /\ \A p \in products : \A p0 \in InitProducts :
                (p.id = pid /\ p0.id = pid)
                   => p.stock = p0.stock + conn[1].req.quantity + conn[2].req.quantity
          /\ \E p \in products : p.id = pid
          /\ Cardinality(new) = 2
          /\ \A x \in new : x.product_id = pid
          /\ \E x, y \in new :
                /\ x # y
                /\ x.quantity = conn[1].req.quantity
                /\ y.quantity = conn[2].req.quantity

\* Both receipts of different quantities are answered 201.
C21_Witness ==
    /\ BothPosted
    /\ conn[1].req.quantity # conn[2].req.quantity

\* C22: references hold in every committed state, in whatever order the
\* steps of requests served at once fall (createShipment or createReceipt
\* against deleteProduct among them): every receipt and every shipment item
\* names a product that exists in the organization of the receipt or item,
\* every item names a shipment of its own organization, and every shipment
\* has at least one item.
C22_References ==
    /\ \A x \in receipts :
          \E p \in products : p.id = x.product_id /\ p.org_id = x.org_id
    /\ \A k \in DOMAIN items :
          /\ \E p \in products : p.id = items[k].product_id /\ p.org_id = items[k].org_id
          /\ \E s \in shipments : s.id = items[k].shipment_id /\ s.org_id = items[k].org_id
    /\ \A s \in shipments : \E k \in DOMAIN items : items[k].shipment_id = s.id

\* A deleteProduct was committed between the first loop of a createShipment
\* and its second loop: the header is written and the line's product is gone.
C22_Witness ==
    \E c \in Conns :
       /\ conn[c].pc = "ship"
       /\ ~ReferencesProduct(conn[c].work, conn[c].req.lines[conn[c].k].productId)
       /\ conn[Other(c)].pc = "done"
       /\ conn[Other(c)].req.op = "deleteProduct"
       /\ conn[Other(c)].resp.status = 200

\* C27: no request blocks for ever.  Under fair scheduling of the requests
\* served at once for one organization, every accepted request ends with an
\* answer, a success or a typed failure; and the step that ends a request
\* with 500 (the write lock was not had in time, or a statement failed)
\* leaves the committed database as it was and the write lock free of it.
Answers == {200, 201, 400, 401, 403, 404, 500}

C27_RollsBack ==
    \A c \in Conns :
       (conn[c].pc # "done" /\ conn'[c].pc = "done" /\ conn'[c].resp.status = 500)
          => (UNCHANGED dbvars /\ lock' # c /\ conn'[c].work = Idle.work)

C27_Completes ==
    /\ \A c \in Conns :
          (conn[c].pc # "idle") ~> (conn[c].pc = "done" /\ conn[c].resp.status \in Answers)
    /\ [][C27_RollsBack]_vars

\* A request that waited for the write lock held by the other connection is
\* answered 500.
C27_Witness ==
    \E c \in Conns :
       /\ conn[c].pc = "done"
       /\ conn[c].resp.status = 500
       /\ lock = Other(c)
       /\ conn[Other(c)].pc = "commit"

\* C23: the price of a line is fixed when the shipment is made.  Served in
\* any state reached, a createShipment answered 201 appends one item per line
\* whose price is the line's price, raised to 0 when negative, or, when the
\* line has none, the product's price at that moment, and whose amount is
\* price x quantity; and no updatePrice, updateProduct, createReceipt or
\* createShipment changes an item that is already there.
C23_Lists == LinesIn(LineIn({1}, {1}, {0 - 1, 3}), {1, MaxLines})

C23_Reqs ==
    Json(UpdatePriceReqs({Owner}, {0 - 1, 0, 3}))
    \cup Json(UpdateProductReqs({Owner}, {"B"}, {0 - 1, 3}))
    \cup Json(CreateReceiptReqs({Owner}, {1}, {0}))
    \cup Json(CreateShipmentReqs({Owner}, C23_Lists))

PriceAt(d, product_id) == (CHOOSE p \in d.products : p.id = product_id).price

C23_PriceSnapshot ==
    \A r \in C23_Reqs :
       LET out == route(DB, now, r)
           n == Len(items)
       IN /\ Len(out.db.items) >= n
          /\ SubSeq(out.db.items, 1, n) = items
          /\ (r.op = "createShipment" /\ out.resp.status = 201) =>
                /\ Len(out.db.items) = n + Len(r.lines)
                /\ \A k \in DOMAIN r.lines :
                      LET it == out.db.items[n + k]
                          line == r.lines[k]
                          price == IF line.hasPrice
                                   THEN (IF line.price < 0 THEN 0 ELSE line.price)
                                   ELSE PriceAt(DB, line.productId)
                      IN /\ it.product_id = line.productId
                         /\ it.quantity = line.quantity
                         /\ it.price = price
                         /\ it.amount = price * line.quantity

\* An item made without a price on its line still carries the price its
\* product had then, after the product's price was changed.
C23_Witness ==
    \E k \in DOMAIN items : \E p \in products :
       /\ p.id = items[k].product_id
       /\ p.price # items[k].price
       /\ p.price = 2
       /\ items[k].price = 1

\* C24: what a price or name update touches.  An updatePrice or
\* updateProduct request of an owner or manager for a product of their own
\* organization is answered 200 and replaces that one product row by itself
\* with the price sent, raised to 0 when negative (and, for updateProduct,
\* the name sent); its stock and purchase price, every other product, the
\* receipts, shipments, items, memberships and sessions stay as they were.
\* When the id names no product of the caller's organization the answer is
\* 404, and an updateProduct with a blank name is answered 400; neither
\* changes anything.
C24_Reqs ==
    Json(UpdatePriceReqs({Owner, 2, 3}, {0 - 1, 0, 3}))
    \cup Json(UpdateProductReqs({Owner, 2, 3}, {"", "B"}, {0 - 1, 3}))

C25_Reqs == Json(RoleReqs(TokenIn, EmailIn, RoleIn))

C25_Membership ==
    /\ \A m1, m2 \in memberships :
          (m1.user_id = m2.user_id /\ m1.org_id = m2.org_id) => m1 = m2
    /\ \A m \in memberships : m.role \in RoleNames
    /\ \A r \in C25_Reqs :
          LET out == route(DB, now, r)
              named == IF Resolvable(r.token, now)
                       THEN {m \in memberships : m.user_id = r.email
                                                 /\ m.org_id = SessionOf(r.token).org_id}
                       ELSE {}
          IN /\ out.resp.status = 200 =>
                   /\ Resolvable(r.token, now)
                   /\ MembershipOf(r.token).role = "owner"
                   /\ \E m \in named :
                         out.db = [DB EXCEPT !.memberships =
                                      (@ \ {m}) \cup {[m EXCEPT !.role = r.role]}]
             /\ (r.role \notin RoleNames \/ named = {}) =>
                   /\ out.resp.status # 200
                   /\ Ledger(out.db) = Ledger(DB)

\* The owner of o2 has made the viewer of o2 an owner, the same member being
\* manager in o1; a request with a role outside the three is refused.
C25_Witness ==
    /\ \E m \in memberships : m.user_id = "u2" /\ m.org_id = "o2" /\ m.role = "owner"
    /\ \E m \in memberships : m.user_id = "u2" /\ m.org_id = "o1" /\ m.role = "manager"
    /\ \E r \in C25_Reqs :
          /\ r.token = 3
          /\ r.email = "u2"
          /\ r.role = "admin"
          /\ route(DB, now, r).resp.status = 400

\* C26: what a login binds.  A login with a known username, its password and
\* at least one membership is answered 200 and adds exactly one session, of
\* that principal and of the organization of the principal's membership
\* created first, leaving every other session in place; a login with an
\* unknown username, a wrong password or a principal without membership is
\* refused and leaves the database as it was.  No request served later
\* changes the principal or the organization of a session that stays.
C26_States == {DB, [DB EXCEPT !.memberships = {m \in @ : m.user_id # "u2"}]}

C26_Later ==
    LoginReqs \cup LogoutReqs(TokenIn) \cup StateReqs(TokenIn)
    \cup Json(RoleReqs(TokenIn, Users, RoleNames))
    \cup Json(UpdatePriceReqs(TokenIn, {2}))

C26_LoginBinds ==
    /\ \A d \in C26_States : \A r \in Json(LoginReqs) :
          LET out == route(d, now, r)
              mine == {m \in d.memberships : m.user_id = r.username}
              known == r.username \in Users /\ r.password = password_of[r.username]
          IN IF known /\ mine # {}
             THEN /\ out.resp.status = 200
                  /\ d.sessions \subseteq out.db.sessions
                  /\ Cardinality(out.db.sessions \ d.sessions) = 1
                  /\ \A s \in out.db.sessions \ d.sessions :
                        /\ s.user_id = r.username
                        /\ \E m \in mine :
                              /\ m.org_id = s.org_id
                              /\ \A o \in mine : o # m => m.created_at < o.created_at
                        /\ \A x \in d.sessions : x.token # s.token
             ELSE /\ out.resp.status \in {401, 403}
                  /\ out.resp.status = 403 <=> known
                  /\ out.db = d
    /\ \A r \in C26_Later :
          \A s \in sessions : \A x \in route(DB, now, r).db.sessions :
             x.token = s.token => (x.user_id = s.user_id /\ x.org_id = s.org_id)

\* The member of both organizations has logged in after the start and is
\* bound to the organization joined first.
C26_Witness ==
    /\ \E s \in sessions : s.user_id = "u2" /\ s.created_at > 0 /\ s.org_id = "o1"
    /\ \E m \in memberships : m.user_id = "u2" /\ m.org_id = "o2"

\* C30: sessions do not touch one another.  A request other than a login adds
\* no session and removes at most the session of the token it presents, and
\* that only as a logout or because the session has expired; every other
\* session is resolved afterwards, at any instant before its own expiry, to
\* the principal and organization it had.  A ledger request of a session in
\* force leaves the sessions as they were.
C30_Reqs ==
    LogoutReqs(TokenIn) \cup StateReqs(TokenIn) \cup PrintReqs(TokenIn)
    \cup Json(RoleReqs(TokenIn, {"u2"}, {"viewer"}))
    \cup Json(CreateProductReqs(TokenIn, {"B"}, {2}, {1}, {1}))
    \cup Json(UpdatePriceReqs(TokenIn, {2}))
    \cup DeleteProductReqs(TokenIn)
    \cup Json(CreateReceiptReqs(TokenIn, {1}, {0}))
    \cup DeleteReceiptReqs(TokenIn)
    \cup Json(CreateShipmentReqs(TokenIn, LinesIn(LineIn({1, 2}, {1}, {}), {1})))
    \cup DeleteShipmentReqs(TokenIn)

C30_SessionsApart ==
    \A r \in C30_Reqs :
       LET after == route(DB, now, r).db IN
       /\ after.sessions \subseteq sessions
       /\ \A s \in sessions \ after.sessions :
             s.token = r.token /\ (r.op = "logout" \/ now >= s.expires_at)
       /\ (r.op \in Mutating /\ Resolvable(r.token, now)) => after.sessions = sessions
       /\ \A s \in sessions : \A t \in {now, now + TickStep} :
             (s.token # r.token /\ t < s.expires_at) =>
                LET got == get_current_auth(after, t, s.token).auth IN
                got.ok /\ got.userId = s.user_id /\ got.orgId = s.org_id

\* Two sessions have expired and are still stored and a session of the same
\* principal is in force; a read presenting one of the expired tokens removes
\* that session and leaves the other two.
C30_Witness ==
    \E s1, s2, s3 \in sessions :
       /\ s1.token # s2.token
       /\ now >= s1.expires_at
       /\ now >= s2.expires_at
       /\ now < s3.expires_at
       /\ s3.user_id = s1.user_id
       /\ \E r \in StateReqs({s1.token}) :
             /\ route(DB, now, r).resp.status = 401
             /\ route(DB, now, r).db.sessions = sessions \ {s1}

\* C28: the ledger balances.  For every product made by createProduct, in
\* every state reached by requests served one after another, the stock is at
\* least the quantities of its receipts less the quantities of its shipment
\* items; and it is exactly that as long as no deleteReceipt has met a stock
\* below the receipt's quantity: a new product balances, and a step other
\* than such a deleteReceipt keeps a product that balances balancing.
RECURSIVE QuantityOf(_)
QuantityOf(rows) ==
    IF rows = {} THEN 0
    ELSE LET x == CHOOSE y \in rows : TRUE IN x.quantity + QuantityOf(rows \ {x})

Owed(recs, its, product_id) ==
    QuantityOf({x \in recs : x.product_id = product_id})
    - QuantityOf({[k |-> k, quantity |-> its[k].quantity]
                  : k \in {j \in DOMAIN its : its[j].product_id = product_id}})

Clamped ==
    \E x \in receipts \ receipts' : \E p \in products :
       p.id = x.product_id /\ p.stock < x.quantity

C28_Step ==
    \A q \in products' :
       LET before == {p \in products : p.id = q.id} IN
       \/ Clamped
       \/ \E p \in before : p.stock # Owed(receipts, items, p.id)
       \/ q.stock = Owed(receipts', items', q.id)

C28_LedgerBalance ==
    /\ [](\A p \in products : p.stock >= Owed(receipts, items, p.id))
    /\ [][C28_Step]_vars

\* A receipt was taken back after part of its stock was shipped: the stock
\* stands at zero, above receipts less shipments.
C28_Witness ==
    \E p \in products :
       /\ p.stock = 0
       /\ Owed(receipts, items, p.id) < 0

\* C29: an organization keeps an owner.  After any sequence of role changes,
\* every organization that had a member with the owner role at the start has
\* one still, also when an owner names their own email.
C29_OwnerKept ==
    \A o \in Orgs :
       (\E m \in InitMemberships : m.org_id = o /\ m.role = "owner")
          => \E m \in memberships : m.org_id = o /\ m.role = "owner"

====
